---- MODULE Spec2Model ----
(***************************************************************************)
(* The marketing-code gate of yourl.cloud (app.py, app_simple.py): the     *)
(* seeded code generator and its process-wide caches, the code source      *)
(* resolver with its ordered fallback chain, and the access gate that      *)
(* compares a submitted string to the current code and marks the session.  *)
(*                                                                         *)
(* Strings are sequences of one-character strings, so that formatting,     *)
(* parsing and the format check are computed, not assumed.  Python's None  *)
(* is the empty tuple and a present value v is the one-element tuple <<v>>.*)
(* Request threads (waitress serves with threads=4) advance one statement  *)
(* touching shared state at a time.                                        *)
(***************************************************************************)
EXTENDS Integers, Sequences, FiniteSets, TLC

(***************************************************************************)
(* Bounds of the model                                                     *)
(***************************************************************************)
\* requests one process serves before the model stops looking
MaxRequests == 2
\* values the per-process string-hash key (PYTHONHASHSEED) can take
NumHashKeys == 2
\* rows of a visitor's access history
MaxHistory == 2
\* calls of use_code and update_code in a run of the code manager
MaxCalls == 3
\* calls in a run of the live-code updater, the connection pool, the
\* migration manager and the clipboard bridge
MaxSteps == 4
\* seconds on the clock of the clipboard bridge
MaxClock == 80
\* self.sync_interval = 30  # seconds
sync_interval == 30

\* request threads of the server process, and browsers (cookie jars)
Threads == {1, 2}

Sessions == {1}

HashKeys == 0..(NumHashKeys - 1)

(***************************************************************************)
(* Option values                                                           *)
(***************************************************************************)
None == <<>>

Some(v) == <<v>>

Get(o) == o[1]

(***************************************************************************)
(* Characters                                                              *)
(***************************************************************************)
UpperLetters ==
    {"A","B","C","D","E","F","G","H","I","J","K","L","M",
     "N","O","P","Q","R","S","T","U","V","W","X","Y","Z"}

DigitChars == <<"0","1","2","3","4","5","6","7","8","9">>

\* the character class of the format pattern  ^[A-Z]+[0-9]{2,3}[!@#$%^&*+=?~]$
FormatSymbols == {"!","@","#","$","%","^","&","*","+","=","?","~"}

\* '0123456789abcdefABCDEF' with the value int(c, 16) gives each character
HexChars ==
    <<"0","1","2","3","4","5","6","7","8","9","a","b","c","d","e","f",
      "A","B","C","D","E","F">>

HexVal(c) ==
    LET i == CHOOSE k \in 1..Len(HexChars) : HexChars[k] = c
    IN  IF i <= 16 THEN i - 1 ELSE i - 7

\* a code point for every character a seed of the model contains
Alphabet ==
    <<"0","1","2","3","4","5","6","7","8","9","a","b","c","d","e","f",
      "A","B","C","D","E","F","_","n","x","t","u","k","o","w">>

Ord(c) == CHOOSE k \in 1..Len(Alphabet) : Alphabet[k] = c

Range(s) == {s[i] : i \in 1..Len(s)}

(***************************************************************************)
(* Word and symbol lists                                                   *)
(***************************************************************************)
marketing_words ==
    <<
       <<"C","L","O","U","D">>, <<"F","U","T","U","R","E">>, <<"I","N","N","O","V","A","T","E">>, <<"D","R","E","A","M">>,
       <<"B","U","I","L","D">>, <<"C","R","E","A","T","E">>, <<"L","A","U","N","C","H">>, <<"F","L","Y">>,
       <<"S","P","A","R","K">>, <<"S","H","I","N","E">>, <<"G","L","O","W">>, <<"R","I","S","E">>,
       <<"L","E","A","P">>, <<"J","U","M","P">>, <<"D","A","S","H">>, <<"Z","O","O","M">>,
       <<"P","O","W","E","R">>, <<"M","A","G","I","C">>, <<"W","O","N","D","E","R">>, <<"A","M","A","Z","E">>,
       <<"T","H","R","I","L","L">>, <<"E","X","C","I","T","E">>, <<"I","N","S","P","I","R","E">>, <<"I","G","N","I","T","E">>,
       <<"R","O","C","K","E","T">>, <<"S","T","A","R">>, <<"M","O","O","N">>, <<"S","U","N">>,
       <<"O","C","E","A","N">>, <<"M","O","U","N","T","A","I","N">>, <<"F","O","R","E","S","T">>, <<"R","I","V","E","R">>,
       <<"T","E","C","H">>, <<"A","I">>, <<"C","O","D","E">>, <<"D","A","T","A">>,
       <<"S","M","A","R","T">>, <<"F","A","S","T">>, <<"S","E","C","U","R","E">>, <<"T","R","U","S","T">>,
       <<"F","R","I","E","N","D">>, <<"F","A","M","I","L","Y">>, <<"T","E","A","M">>, <<"S","Q","U","A","D">>,
       <<"C","R","E","W">>, <<"G","A","N","G">>, <<"T","R","I","B","E">>, <<"C","L","A","N">>
    >>

ascii_symbols == <<"!", "@", "#", "$", "%", "&", "*", "+", "=", "?", "~", "^">>

simple_words ==
    <<
       <<"C","L","O","U","D">>, <<"F","U","T","U","R","E">>, <<"I","N","N","O","V","A","T","E">>,
       <<"D","R","E","A","M">>, <<"B","U","I","L","D">>, <<"C","R","E","A","T","E">>
    >>

next_words ==
    <<
       <<"R","O","C","K","E","T">>, <<"S","T","A","R">>, <<"M","O","O","N">>,
       <<"S","U","N">>, <<"O","C","E","A","N">>, <<"M","O","U","N","T","A","I","N">>
    >>

simple_symbols == <<"!", "@", "#", "$", "%", "&">>

\* random.randint(10, 999)
\* visitor_history[-5:]  (Last 5 attempts)
recent_window == 5

randint_lo == 10

randint_hi == 999

(***************************************************************************)
(* Numbers and strings                                                     *)
(***************************************************************************)
\* An integer of up to 32 bits is kept as the pair <<high, low>> of its
\* 16-bit halves: int(commit_hash, 16) of eight hex digits exceeds the
\* checker's integers.

RECURSIVE HexFold(_, _)
HexFold(s, acc) ==
    IF s = <<>> THEN acc ELSE HexFold(Tail(s), acc * 16 + HexVal(Head(s)))

\* int(s, 16) for a string of 1..8 hex digits
HexToInt(s) ==
    LET n  == Len(s)
        lo == IF n <= 4 THEN s ELSE SubSeq(s, n - 3, n)
        hi == IF n <= 4 THEN <<>> ELSE SubSeq(s, 1, n - 4)
    IN  <<HexFold(hi, 0), HexFold(lo, 0)>>

\* all(c in '0123456789abcdefABCDEF' for c in s)
AllHex(s) == \A i \in 1..Len(s) : s[i] \in Range(HexChars)

\* str(n) for n >= 0
RECURSIVE IntToStr(_)
IntToStr(n) ==
    IF n < 10 THEN <<DigitChars[n + 1]>>
    ELSE IntToStr(n \div 10) \o <<DigitChars[(n % 10) + 1]>>

\* hash(s) of a str: keyed by a per-process random key unless
\* PYTHONHASHSEED fixes it; here a keyed polynomial hash
HashMod == 65521

RECURSIVE StrHashFold(_, _)
StrHashFold(s, acc) ==
    IF s = <<>> THEN acc
    ELSE StrHashFold(Tail(s), (acc * 31 + Ord(Head(s))) % HashMod)

\* hash('') is 0 whatever the key
StrHash(key, s) ==
    IF s = <<>> THEN <<0, 0>>
    ELSE <<0, StrHashFold(s, (key * 7919 + 17) % HashMod)>>

(***************************************************************************)
(* The module-level random generator (import random): one shared state,    *)
(* here a 16-bit linear congruential generator.  seed() resets the state,  *)
(* every choice()/randint() advances it by one draw.                       *)
(***************************************************************************)
RngMod == 65536

RngMul == 25173

RngInc == 13849

\* random.seed(hash_num)
RandSeed(hash_num) == (hash_num[1] * 251 + hash_num[2]) % RngMod

\* the state after one draw
RandStep(s) == (s * RngMul + RngInc) % RngMod

\* the value in 0..n-1 the draw that led to state s yields
RandBelow(s, n) == (s \div 16) % n

\* random.choice(seq) from the state after the draw
Choice(s, seq) == seq[RandBelow(s, Len(seq)) + 1]

\* a wrong upper bound: randint(a, 10 * b)
RandIntWide(s, a, b) == a + RandBelow(s, 10 * b - a + 1)

\* random.randint(a, b) from the state after the draw
RandInt(s, a, b) == a + RandBelow(s, b - a + 1)

\* the parts joined in the order they were drawn: f"{word}{symbol}{number}"
FormatCodeDrawOrder(word, number, symbol) == word \o <<symbol>> \o IntToStr(number)

\* f"{word}{number}{symbol}"
FormatCode(word, number, symbol) == word \o IntToStr(number) \o <<symbol>>

\* what one uninterrupted run of the generator body returns for hash_num:
\* seed, then word, symbol, number in this order of draws
Generate(words, symbols, hash_num) ==
    LET s1 == RandStep(RandSeed(hash_num))
        s2 == RandStep(s1)
        s3 == RandStep(s2)
    IN  FormatCode(Choice(s1, words), RandInt(s3, randint_lo, randint_hi),
                   Choice(s2, symbols))

\* re.fullmatch(r'[A-Z]+[0-9]{2,3}[!@#$%^&*+=?~]', code)
FormatValid(code) ==
    \E w \in 1..Len(code) : \E d \in {2, 3} :
        /\ Len(code) = w + d + 1
        /\ \A i \in 1..w : code[i] \in UpperLetters
        /\ \A i \in (w + 1)..(w + d) : code[i] \in Range(DigitChars)
        /\ code[Len(code)] \in FormatSymbols

(***************************************************************************)
(* The deployment: what a process finds in its checkout and environment    *)
(***************************************************************************)
\* hashlib.md5(s.encode()).hexdigest()[:8] for the identifiers of the model
Md5Hex8(s) ==
    CASE s = "stable-fallback"      -> <<"a","0","7","c","8","e","5","d">>
      [] s = "build-42"             -> <<"0","a","a","e","4","4","d","b">>
      [] s = "build-42_next"        -> <<"8","c","0","e","4","f","1","1">>
      [] s = "1700000000"           -> <<"2","4","9","2","0","d","e","c">>
      [] s = "1700000000_next"      -> <<"a","c","8","e","4","4","a","1">>
      [] s = "1700000001"           -> <<"f","5","8","6","5","3","4","7">>
      [] s = "1700000001_next"      -> <<"1","6","d","4","9","e","7","4">>

\* str(int(datetime.now().timestamp())) at the moments the model looks at
Timestamps == {"1700000000", "1700000001"}

\* git rev-parse HEAD, cut to eight characters, when git answers
GitHeads == {<<"a","b","c","d","e","f","1","2">>}

\* a checkout whose '<commit>_next' seed draws the code its own seed draws.
\* With CPython 3.11 and PYTHONHASHSEED=0 the checkout c199834e is one:
\* both seeds give WONDER10&.  Under the generator of this module the
\* checkout below is one for the hash key 0.
TwinHead == <<"c","1","9","9","1","a","4","9">>

\* values of BUILD_MARKETING_CODE: one of the code format, one not
OverrideGood == <<"C","L","O","U","D","1","2","3","!">>

OverrideBad == <<"l","e","t","m","e","i","n">>

\* what the external stores hold for a role, when they hold something
StoredCode(role) ==
    IF role = "current" THEN <<"S","T","A","R","4","2","!">>
    ELSE <<"M","O","O","N","7","7","#">>

\* a string that differs from OverrideGood in case only
WrongCase == <<"c","l","o","u","d","1","2","3","!">>

\* the deployments looked at: git_head is what git rev-parse HEAD answers,
\* build_id is BUILD_ID, override is BUILD_MARKETING_CODE, db tells whether
\* DATABASE_CONNECTION_STRING is set
Envs ==
    {[git_head |-> Some(g), build_id |-> None, override |-> None, db |-> FALSE] :
        g \in GitHeads}
    \cup {[git_head |-> None, build_id |-> None, override |-> None, db |-> TRUE],
          [git_head |-> None, build_id |-> Some("build-42"),
           override |-> Some(OverrideBad), db |-> FALSE]}
    \cup {[git_head |-> Some(g), build_id |-> None, override |-> Some(OverrideGood),
           db |-> TRUE] : g \in GitHeads}
    \cup {[git_head |-> Some(TwinHead), build_id |-> None, override |-> None,
           db |-> FALSE]}

\* app_simple.py reads BUILD_ID only
SimpleEnvs ==
    {[git_head |-> None, build_id |-> b, override |-> None, db |-> FALSE] :
        b \in {None, Some("build-42")}}

\* os.environ.get('BUILD_ID', os.environ.get('DEPLOYMENT_ID', 'stable-fallback'))
FallbackId(e) == IF e.build_id # None THEN Get(e.build_id) ELSE "stable-fallback"

(***************************************************************************)
(* State                                                                   *)
(***************************************************************************)
VARIABLES
    program,                    \* "app" (app.py) or "app_simple" (wsgi:app)
    env,                        \* the deployment's checkout and environment
    hash_key,                   \* this process's string-hash key
    generated_code_cache,       \* app.py _generated_code_cache
    generated_hash_code_cache,  \* app.py _generated_hash_code_cache
    current_password,           \* app_simple.py _current_password
    next_password,              \* app_simple.py _next_password
    rng,                        \* state of the module-level random generator
    printed,                    \* app.py _current_code_printed, _next_code_printed
    cookie,                     \* the session cookie each browser holds
    accepted,                   \* history: the session once posted the current code
    usage_log,                  \* what the database client was given to record
    served,                     \* requests taken so far
    th,                         \* the request threads
    mcm,                        \* scripts/database/marketing_code_manager.py
    live,                       \* scripts/database/update_live_code.py
    pool,                       \* scripts/database/database_connection_manager.py
    mig,                        \* scripts/database/migrate_to_database.py
    bridge                      \* scripts/clipboard/zaido_clipboard_bridge.py

\* the state of the web applications
app_vars ==
    <<program, env, hash_key, generated_code_cache, generated_hash_code_cache,
      current_password, next_password, rng, printed, cookie, accepted, usage_log,
      served, th>>

\* the state of the maintenance scripts, which run as programs of their own
script_vars == <<mcm, live, pool, mig, bridge>>

vars == <<app_vars, script_vars>>

process_vars == <<program, env, hash_key, script_vars>>

\* what no step of a request in progress changes
fixed_vars == <<program, env, hash_key, served, script_vars>>

\* the value of the variables of a program that is not running
Off == "off"

EmptySession ==
    [authenticated |-> FALSE, last_access_code |-> None,
     auth_error |-> None, auth_data |-> None, monitoring_tokens |-> None]

NoResponse == [status |-> 0, location |-> "", current |-> None, next |-> None,
               error |-> None, token |-> None]

NoOutcome == [kind |-> "not_consulted", code |-> <<>>]

NoNumber == <<0, 0>>

NoHistory == [kind |-> "not_consulted", rows |-> <<>>]

IdleThread ==
    [pc |-> "idle", kind |-> "none", sid |-> 0, password |-> <<>>,
     session |-> EmptySession, current |-> None, next |-> None,
     cur_src |-> "", next_src |-> "", db_out |-> NoOutcome, sm_out |-> NoOutcome,
     role |-> "", seed |-> <<>>, hash_num |-> NoNumber,
     word |-> <<>>, symbol |-> "", number |-> 0, resp |-> NoResponse,
     due |-> {}, logged |-> {}, history |-> NoHistory, recovery |-> None,
     route |-> "", bearer |-> None]

\* what a store lookup can come to: an error (import failure, connection
\* error, any exception), nothing (None or ''), or a code
Outcomes(role) ==
    {[kind |-> "error", code |-> <<>>], [kind |-> "none", code |-> <<>>],
     [kind |-> "value", code |-> StoredCode(role)]}

Skipped == [kind |-> "skipped", code |-> <<>>]

\* a process that has just started
InitProcess ==
    /\ program \in {"app", "app_simple"}
    /\ env \in IF program = "app" THEN Envs ELSE SimpleEnvs
    /\ hash_key \in IF program = "app" THEN HashKeys ELSE {0}
    /\ generated_code_cache = None
    /\ generated_hash_code_cache = <<>>
    /\ IF program = "app_simple"
       THEN \E ts \in Timestamps :
              current_password =
                Some(Generate(simple_words, simple_symbols,
                              HexToInt(Md5Hex8(IF env.build_id # None
                                               THEN Get(env.build_id) ELSE ts))))
       ELSE current_password = None
    /\ next_password = None
    /\ rng = 0
    /\ printed = [current |-> FALSE, next |-> FALSE]
    /\ accepted = [s \in Sessions |-> FALSE]
    /\ usage_log = {}
    /\ served = 0
    /\ th = [t \in Threads |-> IdleThread]
    /\ mcm = Off /\ live = Off /\ pool = Off /\ mig = Off /\ bridge = Off

\* a new browser
Init ==
    /\ InitProcess
    /\ cookie = [s \in Sessions |-> EmptySession]

(***************************************************************************)
(* The code source resolver (app.py get_current_marketing_code,            *)
(* get_next_marketing_code).  dbo and smo are what the database and the    *)
(* Secret Manager lookups come to; the result names the step that          *)
(* answered, its code, and what each store step came to as far as the call *)
(* consulted it.                                                           *)
(***************************************************************************)
Truthy(o) == o.kind = "value" /\ o.code # <<>>

\* the environment override looked at before the stores
get_current_marketing_code_env_first(dbo, smo, override) ==
    IF override # None /\ Get(override) # <<>>
    THEN [src |-> "environment", code |-> Get(override), db_out |-> NoOutcome,
          sm_out |-> NoOutcome]
    ELSE IF Truthy(dbo)
    THEN [src |-> "database", code |-> dbo.code, db_out |-> dbo, sm_out |-> NoOutcome]
    ELSE IF Truthy(smo)
    THEN [src |-> "secret_manager", code |-> smo.code, db_out |-> dbo, sm_out |-> smo]
    ELSE [src |-> "generator", code |-> <<>>, db_out |-> dbo, sm_out |-> smo]

get_current_marketing_code(dbo, smo, override) ==
    IF Truthy(dbo)
    THEN [src |-> "database", code |-> dbo.code, db_out |-> dbo, sm_out |-> NoOutcome]
    ELSE IF Truthy(smo)
    THEN [src |-> "secret_manager", code |-> smo.code, db_out |-> dbo, sm_out |-> smo]
    ELSE IF override # None /\ Get(override) # <<>>
    THEN [src |-> "environment", code |-> Get(override), db_out |-> dbo, sm_out |-> smo]
    ELSE [src |-> "generator", code |-> <<>>, db_out |-> dbo, sm_out |-> smo]

\* the database step without its except clause
get_next_marketing_code_uncaught(dbo, smo) ==
    IF dbo.kind = "error"
    THEN [src |-> "raised", code |-> <<>>, db_out |-> dbo, sm_out |-> NoOutcome]
    ELSE IF Truthy(dbo)
    THEN [src |-> "database", code |-> dbo.code, db_out |-> dbo, sm_out |-> NoOutcome]
    ELSE IF Truthy(smo)
    THEN [src |-> "secret_manager", code |-> smo.code, db_out |-> dbo, sm_out |-> smo]
    ELSE [src |-> "generator", code |-> <<>>, db_out |-> dbo, sm_out |-> smo]

get_next_marketing_code(dbo, smo) ==
    IF Truthy(dbo)
    THEN [src |-> "database", code |-> dbo.code, db_out |-> dbo, sm_out |-> NoOutcome]
    ELSE IF Truthy(smo)
    THEN [src |-> "secret_manager", code |-> smo.code, db_out |-> dbo, sm_out |-> smo]
    ELSE [src |-> "generator", code |-> <<>>, db_out |-> dbo, sm_out |-> smo]

\* the steps of a resolver call that came to one of its print statements:
\* a store step that was run (found, nothing found, or error), the override
\* when it answered
StepsReached(r) ==
    (IF r.db_out.kind \in {"value", "none", "error"} THEN {"database"} ELSE {})
      \cup (IF r.sm_out.kind \in {"value", "none", "error"}
            THEN {"secret_manager"} ELSE {})
      \cup (IF r.src = "environment" THEN {"environment"} ELSE {})

\* the first of them in the order of the function's text
FirstStep(steps) ==
    IF "database" \in steps THEN "database"
    ELSE IF "secret_manager" \in steps THEN "secret_manager"
    ELSE "environment"

\* the lines the call prints: every print is guarded by 'if not <flag>' and
\* followed by '<flag> = True'
Emitted(flag, steps) == IF flag \/ steps = {} THEN {} ELSE {FirstStep(steps)}

\* the database step runs only when DATABASE_CONNECTION_STRING is set
DbOutcomes(role) == IF env.db THEN Outcomes(role) ELSE {Skipped}

\* commit_hash of generate_marketing_code: git's HEAD, else the md5 of the
\* fallback identifier
CommitHash(e) ==
    IF e.git_head # None THEN Get(e.git_head) ELSE Md5Hex8(FallbackId(e))

\* next_hash of get_next_marketing_code
NextHash(e) ==
    IF e.git_head # None THEN Get(e.git_head) \o <<"_","n","e","x","t">>
    ELSE <<"n","e","x","t","_","u","n","k","n","o","w","n">>

Unknown == <<"u","n","k","n","o","w","n">>

\* hash_num of generate_marketing_code_from_hash; int('', 16) raises
\* ValueError, which the function answers with hash()
SeedNumber(key, commit_hash) ==
    IF commit_hash # Unknown /\ AllHex(commit_hash) /\ commit_hash # <<>>
    THEN HexToInt(commit_hash)
    ELSE StrHash(key, commit_hash)

LowerLetters == <<"a","b","c","d","e","f","g","h","i","j","k","l","m",
                  "n","o","p","q","r","s","t","u","v","w","x","y","z">>

CapitalLetters == <<"A","B","C","D","E","F","G","H","I","J","K","L","M",
                    "N","O","P","Q","R","S","T","U","V","W","X","Y","Z">>

\* str.upper()
Upper(str) ==
    [i \in 1..Len(str) |->
       IF str[i] \in Range(LowerLetters)
       THEN CapitalLetters[CHOOSE k \in 1..26 : LowerLetters[k] = str[i]]
       ELSE str[i]]

\* a comparison that ignores case: password.upper() == current_password.upper()
PasswordMatchesIgnoreCase(password, current) == Upper(password) = Upper(current)

\* the comparison of the gate: password == current_password
PasswordMatches(password, current) == password = current

\* a success that forgets session['last_access_code']
MarkAuthenticatedOnly(sess, code) == [sess EXCEPT !.authenticated = TRUE]

\* session['authenticated'] = True; session['last_access_code'] = current_password
MarkAuthenticated(sess, code) ==
    [sess EXCEPT !.authenticated = TRUE, !.last_access_code = Some(code)]

(***************************************************************************)
(* The generator, one statement on shared state per step.  role tells      *)
(* which function runs: "current" generate_marketing_code, "next" and      *)
(* "call" generate_marketing_code_from_hash, "simple_next"                 *)
(* app_simple.generate_next_password.                                      *)
(***************************************************************************)
WordsOf(role) == IF role = "simple_next" THEN next_words ELSE marketing_words

SymbolsOf(role) == IF role = "simple_next" THEN simple_symbols ELSE ascii_symbols

\* the cache entry the function looks at on entry
Cached(role, seed) ==
    CASE role = "current" -> generated_code_cache
      [] role = "simple_next" -> next_password
      [] OTHER -> IF seed \in DOMAIN generated_hash_code_cache
                  THEN Some(generated_hash_code_cache[seed]) ELSE None

\* the store outcomes of a resolver call are locals of that call
Cleared(r) ==
    [r EXCEPT !.db_out = NoOutcome, !.sm_out = NoOutcome, !.due = {}, !.logged = {}]

\* the flags once the resolver has passed the print of its generator step
PrintedAfter(role) ==
    CASE role = "current" -> [printed EXCEPT !.current = TRUE]
      [] role = "next" -> [printed EXCEPT !.next = TRUE]
      [] OTHER -> printed

\* the thread's state once its generator call has returned code; the
\* resolver that called it then comes to its last print statement
Returned(r, code) ==
    CASE r.role = "current" ->
           [r EXCEPT !.pc = "have_current", !.current = Some(code),
                     !.cur_src = "generator", !.due = {"generator"},
                     !.logged = IF printed.current THEN {} ELSE {"generator"}]
      [] r.role = "next" ->
           [r EXCEPT !.pc = "have_next", !.next = Some(code),
                     !.next_src = "generator", !.due = {"generator"},
                     !.logged = IF printed.next THEN {} ELSE {"generator"}]
      [] r.role = "simple_next" ->
           [r EXCEPT !.pc = "simple_have_next", !.next = Some(code),
                     !.next_src = "generator"]
      [] OTHER ->
           [r EXCEPT !.pc = "respond", !.next = Some(code),
                     !.next_src = "generator",
                     !.resp = [NoResponse EXCEPT !.next = Some(code)]]

\* the cache test on entry and, on a miss, the numeric seed
GenCheck(t) ==
    /\ th[t].pc = "gen_check"
    /\ LET r == Cleared(th[t])
           c == Cached(r.role, r.seed)
       IN  IF c # None
           THEN th' = [th EXCEPT ![t] = Returned(r, Get(c))]
           ELSE \E ts \in Timestamps :
                LET seed == CASE r.role = "current" -> CommitHash(env)
                              [] r.role = "simple_next" ->
                                   IF env.build_id # None
                                   THEN Get(env.build_id) \o "_next"
                                   ELSE ts \o "_next"
                              [] OTHER -> r.seed
                    num  == CASE r.role = "current" -> HexToInt(seed)
                              [] r.role = "simple_next" -> HexToInt(Md5Hex8(seed))
                              [] OTHER -> SeedNumber(hash_key, seed)
                IN  th' = [th EXCEPT ![t] = [r EXCEPT !.pc = "gen_seed",
                                                      !.hash_num = num]]
    /\ printed' = IF Cached(th[t].role, th[t].seed) # None
                  THEN PrintedAfter(th[t].role) ELSE printed
    /\ UNCHANGED <<fixed_vars, generated_code_cache, generated_hash_code_cache,
                   current_password, next_password, rng, cookie, accepted, usage_log>>

\* random.seed(hash_num)
GenSeed(t) ==
    /\ th[t].pc = "gen_seed"
    /\ rng' = RandSeed(th[t].hash_num)
    /\ th' = [th EXCEPT ![t].pc = "gen_word"]
    /\ UNCHANGED <<fixed_vars, printed, generated_code_cache, generated_hash_code_cache,
                   current_password, next_password, cookie, accepted, usage_log>>

\* word = random.choice(marketing_words)
GenWord(t) ==
    /\ th[t].pc = "gen_word"
    /\ rng' = RandStep(rng)
    /\ th' = [th EXCEPT ![t].pc = "gen_symbol",
                        ![t].word = Choice(rng', WordsOf(th[t].role))]
    /\ UNCHANGED <<fixed_vars, printed, generated_code_cache, generated_hash_code_cache,
                   current_password, next_password, cookie, accepted, usage_log>>

\* symbol = random.choice(ascii_symbols)
GenSymbol(t) ==
    /\ th[t].pc = "gen_symbol"
    /\ rng' = RandStep(rng)
    /\ th' = [th EXCEPT ![t].pc = "gen_number",
                        ![t].symbol = Choice(rng', SymbolsOf(th[t].role))]
    /\ UNCHANGED <<fixed_vars, printed, generated_code_cache, generated_hash_code_cache,
                   current_password, next_password, cookie, accepted, usage_log>>

\* number = random.randint(10, 999)
GenNumber(t) ==
    /\ th[t].pc = "gen_number"
    /\ rng' = RandStep(rng)
    /\ th' = [th EXCEPT ![t].pc = "gen_store",
                        ![t].number = RandInt(rng', randint_lo, randint_hi)]
    /\ UNCHANGED <<fixed_vars, printed, generated_code_cache, generated_hash_code_cache,
                   current_password, next_password, cookie, accepted, usage_log>>

\* password = f"{word}{number}{symbol}"; the cache write; return password
GenStore(t) ==
    /\ th[t].pc = "gen_store"
    /\ LET r    == th[t]
           code == FormatCode(r.word, r.number, r.symbol)
           done == [r EXCEPT !.word = <<>>, !.symbol = "", !.number = 0,
                             !.hash_num = NoNumber]
       IN  /\ th' = [th EXCEPT ![t] = Returned(done, code)]
           /\ generated_code_cache' =
                IF r.role = "current" THEN Some(code) ELSE generated_code_cache
           /\ next_password' =
                IF r.role = "simple_next" THEN Some(code) ELSE next_password
           /\ generated_hash_code_cache' =
                IF r.role \in {"next", "call"}
                THEN [k \in DOMAIN generated_hash_code_cache \cup {r.seed} |->
                        IF k = r.seed THEN code ELSE generated_hash_code_cache[k]]
                ELSE generated_hash_code_cache
    /\ printed' = PrintedAfter(th[t].role)
    /\ UNCHANGED <<fixed_vars, current_password, rng, cookie, accepted, usage_log>>

(***************************************************************************)
(* Requests of app.py                                                      *)
(***************************************************************************)
\* seeds a direct caller hands to generate_marketing_code_from_hash
CallSeeds == {<<"1","a","2","B">>, <<>>}

\* the code the landing page of this deployment showed on an earlier visit
\* (the page prints the current code for everyone)
ShownBefore ==
    IF program # "app" THEN {}
    ELSE IF env.override # None THEN {Get(env.override)}
    ELSE {Generate(marketing_words, ascii_symbols, HexToInt(CommitHash(env)))}

\* what a visitor may type: a near miss, or a code a page showed
Inputs(s) ==
    {WrongCase} \cup ShownBefore
      \cup {Get(c) : c \in {generated_code_cache, current_password} \ {None}}
      \cup {Get(e).current_code : e \in {cookie[s].auth_error} \ {None}}

\* direct callers of the generator (a script, a test) run on their own, not
\* inside the serving threads
NoCaller == \A u \in Threads : th[u].kind # "CALL"

\* the worker threads are interchangeable: a request is taken by the first
\* thread that is free
Takes(t) ==
    /\ th[t].pc = "idle"
    /\ \A u \in Threads : u < t => th[u].pc # "idle"

\* a request arrives with the browser's cookie
Arrived(kind, s, p) ==
    [IdleThread EXCEPT !.kind = kind, !.sid = s, !.password = p,
                       !.session = cookie[s]]

\* GET /
StartGet(t, s) ==
    /\ program = "app"
    /\ Takes(t)
    /\ NoCaller
    /\ served < MaxRequests
    /\ served' = served + 1
    /\ th' = [th EXCEPT ![t] = [Arrived("GET", s, <<>>) EXCEPT !.pc = "get_current"]]
    /\ UNCHANGED <<process_vars, printed, generated_code_cache, generated_hash_code_cache,
                   current_password, next_password, rng, cookie, accepted, usage_log>>

\* POST / with password p (request.form.get('password', ''))
StartPost(t, s, p) ==
    /\ program = "app"
    /\ Takes(t)
    /\ NoCaller
    /\ served < MaxRequests
    /\ served' = served + 1
    /\ th' = [th EXCEPT ![t] = [Arrived("POST", s, p) EXCEPT !.pc = "get_current"]]
    /\ UNCHANGED <<process_vars, printed, generated_code_cache, generated_hash_code_cache,
                   current_password, next_password, rng, cookie, accepted, usage_log>>

\* a call of generate_marketing_code_from_hash(seed)
StartCall(t, seed) ==
    /\ program = "app"
    /\ Takes(t)
    /\ \A u \in Threads : th[u].pc = "idle"
    /\ served < MaxRequests
    /\ served' = served + 1
    /\ th' = [th EXCEPT ![t] = [IdleThread EXCEPT !.pc = "gen_check", !.kind = "CALL",
                                                  !.role = "call", !.seed = seed]]
    /\ UNCHANGED <<process_vars, printed, generated_code_cache, generated_hash_code_cache,
                   current_password, next_password, rng, cookie, accepted, usage_log>>

\* current_password = get_current_marketing_code()
GetCurrent(t) ==
    /\ th[t].pc = "get_current"
    /\ \E dbo \in DbOutcomes("current"), smo \in Outcomes("current") :
         LET r == get_current_marketing_code(dbo, smo, env.override)
             k == [th[t] EXCEPT !.db_out = r.db_out, !.sm_out = r.sm_out,
                                !.due = StepsReached(r),
                                !.logged = Emitted(printed.current, StepsReached(r))]
         IN  th' = [th EXCEPT ![t] =
                      CASE r.src = "generator" ->
                             [k EXCEPT !.pc = "gen_check", !.role = "current"]
                        [] r.src = "raised" -> [k EXCEPT !.pc = "raised"]
                        [] OTHER ->
                             [k EXCEPT !.pc = "have_current", !.cur_src = r.src,
                                       !.current = Some(r.code)]]
    /\ printed' = [printed EXCEPT !.current = TRUE]
    /\ UNCHANGED <<fixed_vars, generated_code_cache, generated_hash_code_cache,
                   current_password, next_password, rng, cookie, accepted, usage_log>>

\* the rest of GET /: auth_error is read, popped and shown with the code
FinishGet(t) ==
    /\ th[t].pc = "have_current"
    /\ th[t].kind = "GET"
    /\ LET r     == Cleared(th[t])
           error == r.session.auth_error
           sess  == [r.session EXCEPT !.auth_error = None]
       IN  /\ th' = [th EXCEPT ![t] =
                       [r EXCEPT !.pc = "respond", !.session = sess,
                                 !.resp = [NoResponse EXCEPT !.status = 200,
                                              !.current = r.current,
                                              !.error = error]]]
           /\ cookie' = IF error # None THEN [cookie EXCEPT ![r.sid] = sess]
                        ELSE cookie
    /\ UNCHANGED <<fixed_vars, printed, generated_code_cache, generated_hash_code_cache,
                   current_password, next_password, rng, accepted, usage_log>>

\* POST /: if password == current_password ... else ...
PostCompare(t) ==
    /\ th[t].pc = "have_current"
    /\ th[t].kind = "POST"
    /\ LET r   == Cleared(th[t])
           cur == Get(r.current)
       IN  IF PasswordMatches(r.password, cur)
           THEN /\ th' = [th EXCEPT ![t] =
                            [r EXCEPT !.pc = "get_next",
                                      !.session = MarkAuthenticated(r.session, cur)]]
                /\ cookie' = cookie
           ELSE LET error == Some([message |-> "Invalid password. Please try again.",
                                   current_code |-> cur,
                                   timestamp |-> served])
                    sess  == [r.session EXCEPT !.auth_error = error]
                IN  /\ th' = [th EXCEPT ![t] =
                                [r EXCEPT !.pc = "respond", !.session = sess,
                                          !.resp = [NoResponse EXCEPT
                                                      !.status = 302,
                                                      !.location = "/?error=auth_failed",
                                                      !.error = error]]]
                    /\ cookie' = [cookie EXCEPT ![r.sid] = sess]
    /\ accepted' = [accepted EXCEPT
                      ![th[t].sid] = @ \/ th[t].password = Get(th[t].current)]
    /\ UNCHANGED <<fixed_vars, printed, generated_code_cache, generated_hash_code_cache,
                   current_password, next_password, rng, usage_log>>

\* next_password = get_next_marketing_code()
GetNext(t) ==
    /\ th[t].pc = "get_next"
    /\ \E dbo \in DbOutcomes("next"), smo \in Outcomes("next") :
         LET r == get_next_marketing_code(dbo, smo)
             k == [th[t] EXCEPT !.db_out = r.db_out, !.sm_out = r.sm_out,
                                !.due = StepsReached(r),
                                !.logged = Emitted(printed.next, StepsReached(r))]
         IN  th' = [th EXCEPT ![t] =
                      CASE r.src = "generator" ->
                             [k EXCEPT !.pc = "gen_check", !.role = "next",
                                       !.seed = NextHash(env)]
                        [] r.src = "raised" -> [k EXCEPT !.pc = "raised"]
                        [] OTHER ->
                             [k EXCEPT !.pc = "have_next", !.next_src = r.src,
                                       !.next = Some(r.code)]]
    /\ printed' = [printed EXCEPT !.next = TRUE]
    /\ UNCHANGED <<fixed_vars, generated_code_cache, generated_hash_code_cache,
                   current_password, next_password, rng, cookie, accepted, usage_log>>

\* what can go wrong while the handler talks to the database client
Faults ==
    {"none", "import", "connect", "log_usage", "log_visitor_access",
     "store_landing_page_version"}

\* the visitor_id cookie a request carries, if any
VisitorCookies == {None, Some("v1")}

UsageRecord(kind, code) == [kind |-> kind, code |-> code, success |-> TRUE]

\* "Log successful authentication to database if available" without its
\* except clause
LogSuccessfulAuthenticationUncaught(database_connection, log, code, visitor_id, fault) ==
    IF ~database_connection THEN [log |-> log, raised |-> FALSE]
    ELSE IF fault \in {"import", "connect", "log_usage"}
    THEN [log |-> log, raised |-> TRUE]
    ELSE IF visitor_id = None
    THEN [log |-> log \cup {UsageRecord("usage", code)}, raised |-> FALSE]
    ELSE IF fault = "log_visitor_access"
    THEN [log |-> log \cup {UsageRecord("usage", code)}, raised |-> TRUE]
    ELSE [log |-> log \cup {UsageRecord("usage", code),
                            UsageRecord("visitor_access", code)},
          raised |-> FALSE]

\* "Log successful authentication to database if available": log_usage,
\* then log_visitor_access when the request has a visitor_id cookie; any
\* exception ends the block and is printed
LogSuccessfulAuthentication(database_connection, log, code, visitor_id, fault) ==
    IF ~database_connection THEN [log |-> log, raised |-> FALSE]
    ELSE IF fault \in {"import", "connect", "log_usage"}
    THEN [log |-> log, raised |-> FALSE]
    ELSE IF visitor_id = None
    THEN [log |-> log \cup {UsageRecord("usage", code)}, raised |-> FALSE]
    ELSE IF fault = "log_visitor_access"
    THEN [log |-> log \cup {UsageRecord("usage", code)}, raised |-> FALSE]
    ELSE [log |-> log \cup {UsageRecord("usage", code),
                            UsageRecord("visitor_access", code)},
          raised |-> FALSE]

\* "Store landing page version in SQL if database is available"
StoreLandingPageVersion(database_connection, log, code, fault) ==
    IF ~database_connection THEN [log |-> log, raised |-> FALSE]
    ELSE IF fault \in {"import", "connect", "store_landing_page_version"}
    THEN [log |-> log, raised |-> FALSE]
    ELSE [log |-> log \cup {UsageRecord("landing_page", code)}, raised |-> FALSE]

\* the rest of a successful POST /: the use is recorded, auth_data is
\* stored, redirect
PostSuccess(t) ==
    /\ th[t].pc = "have_next"
    /\ \E visitor_id \in VisitorCookies, fault \in Faults :
         LET r    == Cleared(th[t])
             a    == LogSuccessfulAuthentication(env.db, usage_log, Get(r.current),
                                                 visitor_id, fault)
             b    == StoreLandingPageVersion(env.db, a.log, Get(r.current), fault)
             sess == [r.session EXCEPT !.auth_data =
                        Some([current_marketing_code |-> Get(r.current),
                              next_marketing_code |-> Get(r.next)])]
         IN  /\ env.db \/ (fault = "none" /\ visitor_id = None)
             /\ IF a.raised
                THEN /\ th' = [th EXCEPT ![t] = [r EXCEPT !.pc = "raised"]]
                     /\ usage_log' = a.log
                     /\ cookie' = cookie
                ELSE /\ th' = [th EXCEPT ![t] =
                                 [r EXCEPT !.pc = "respond", !.session = sess,
                                           !.resp = [NoResponse EXCEPT !.status = 302,
                                                        !.location = "/authenticated",
                                                        !.current = r.current,
                                                        !.next = r.next]]]
                     /\ usage_log' = b.log
                     /\ cookie' = [cookie EXCEPT ![r.sid] = sess]
    /\ UNCHANGED <<fixed_vars, printed, generated_code_cache, generated_hash_code_cache,
                   current_password, next_password, rng, accepted>>

\* the response has left; the thread takes the next request
Respond(t) ==
    /\ th[t].pc = "respond"
    /\ th' = [th EXCEPT ![t] = IdleThread]
    /\ UNCHANGED <<fixed_vars, printed, generated_code_cache, generated_hash_code_cache,
                   current_password, next_password, rng, cookie, accepted, usage_log>>

(***************************************************************************)
(* Code recovery (app.py POST /recover, attempt_code_recovery)             *)
(***************************************************************************)
\* the access history the database client holds for a visitor: rows of
\* access_code and success, the newest row first
VisitorHistories ==
    UNION {[1..n -> [access_code : {StoredCode("current"), OverrideGood},
                     success : BOOLEAN]] : n \in 0..MaxHistory}

\* what get_visitor_access_history comes to: an exception, or the rows
HistoryOutcomes ==
    {[kind |-> "error", rows |-> <<>>]}
      \cup {[kind |-> "rows", rows |-> h] : h \in VisitorHistories}

\* rows[-n:]
LastRows(rows, n) ==
    SubSeq(rows, IF Len(rows) > n THEN Len(rows) - n + 1 ELSE 1, Len(rows))

\* [h['access_code'] for h in rows if h.get('success')]
SuccessfulCodes(rows) ==
    LET ok == SelectSeq(rows, LAMBDA h : h.success)
    IN  [i \in 1..Len(ok) |-> ok[i].access_code]

\* attempt_code_recovery without its outer except clause
attempt_code_recovery_uncaught(database_connection, h) ==
    LET successful_codes == SuccessfulCodes(h.rows)
        recent_codes     == LastRows(h.rows, recent_window)
        FromCurrent(m)   == [raised |-> FALSE, need_current |-> TRUE,
                             suggested_code |-> <<>>, recovery_method |-> m]
    IN  IF ~database_connection THEN FromCurrent("current_code_fallback")
        ELSE IF h.kind = "error"
        THEN [raised |-> TRUE, need_current |-> FALSE, suggested_code |-> <<>>,
              recovery_method |-> ""]
        ELSE IF h.rows = <<>> THEN FromCurrent("current_code_no_history")
        ELSE IF successful_codes # <<>>
        THEN [raised |-> FALSE, need_current |-> FALSE,
              suggested_code |-> successful_codes[Len(successful_codes)],
              recovery_method |-> "previous_success"]
        ELSE [raised |-> FALSE, need_current |-> FALSE,
              suggested_code |-> recent_codes[Len(recent_codes)].access_code,
              recovery_method |-> "recent_attempt"]

\* attempt_code_recovery(visitor_id, ...) as far as it goes without the
\* current code: h is what get_visitor_access_history came to
attempt_code_recovery(database_connection, h) ==
    LET successful_codes == SuccessfulCodes(h.rows)
        recent_codes     == LastRows(h.rows, recent_window)
        FromCurrent(m)   == [raised |-> FALSE, need_current |-> TRUE,
                             suggested_code |-> <<>>, recovery_method |-> m]
    IN  IF ~database_connection THEN FromCurrent("current_code_fallback")
        ELSE IF h.kind = "error" THEN FromCurrent("current_code_error_fallback")
        ELSE IF h.rows = <<>> THEN FromCurrent("current_code_no_history")
        ELSE IF successful_codes # <<>>
        THEN [raised |-> FALSE, need_current |-> FALSE,
              suggested_code |-> successful_codes[Len(successful_codes)],
              recovery_method |-> "previous_success"]
        ELSE [raised |-> FALSE, need_current |-> FALSE,
              suggested_code |-> recent_codes[Len(recent_codes)].access_code,
              recovery_method |-> "recent_attempt"]

\* POST /recover with a visitor id (form field or cookie)
StartRecover(t, s) ==
    /\ program = "app"
    /\ Takes(t)
    /\ NoCaller
    /\ served < MaxRequests
    /\ served' = served + 1
    /\ \E h \in IF env.db THEN HistoryOutcomes ELSE {NoHistory} :
         LET r == attempt_code_recovery(env.db, h)
             k == [Arrived("RECOVER", s, <<>>) EXCEPT !.history = h]
         IN  th' = [th EXCEPT ![t] =
                      CASE r.raised -> [k EXCEPT !.pc = "raised"]
                        [] r.need_current ->
                             [k EXCEPT !.pc = "get_current",
                                       !.recovery =
                                          Some([success |-> TRUE,
                                                suggested_code |-> <<>>,
                                                recovery_method |-> r.recovery_method])]
                        [] OTHER ->
                             [k EXCEPT !.pc = "respond",
                                       !.recovery =
                                          Some([success |-> TRUE,
                                                suggested_code |-> r.suggested_code,
                                                recovery_method |-> r.recovery_method]),
                                       !.resp = [NoResponse EXCEPT !.status = 200]]]
    /\ UNCHANGED <<process_vars, printed, generated_code_cache, generated_hash_code_cache,
                   current_password, next_password, rng, cookie, accepted, usage_log>>

\* current_code = get_current_marketing_code() has returned: the result
FinishRecover(t) ==
    /\ th[t].pc = "have_current"
    /\ th[t].kind = "RECOVER"
    /\ LET r == Cleared(th[t])
       IN  th' = [th EXCEPT ![t] =
                    [r EXCEPT !.pc = "respond",
                              !.recovery = Some([Get(r.recovery) EXCEPT
                                                   !.suggested_code = Get(r.current)]),
                              !.resp = [NoResponse EXCEPT !.status = 200]]]
    /\ UNCHANGED <<fixed_vars, printed, generated_code_cache, generated_hash_code_cache,
                   current_password, next_password, rng, cookie, accepted, usage_log>>

(***************************************************************************)
(* Requests of app_simple.py                                               *)
(***************************************************************************)
\* GET /: the page shows generate_simple_password()
SimpleGet(t, s) ==
    /\ program = "app_simple"
    /\ Takes(t)
    /\ NoCaller
    /\ served < MaxRequests
    /\ served' = served + 1
    /\ th' = [th EXCEPT ![t] =
                [Arrived("GET", s, <<>>) EXCEPT
                   !.pc = "respond", !.current = current_password,
                   !.cur_src = "generator",
                   !.resp = [NoResponse EXCEPT !.status = 200,
                                               !.current = current_password]]]
    /\ UNCHANGED <<process_vars, printed, generated_code_cache, generated_hash_code_cache,
                   current_password, next_password, rng, cookie, accepted, usage_log>>

\* POST /: current_password = generate_simple_password(), then
\* next_password = generate_next_password()
SimplePost(t, s, p) ==
    /\ program = "app_simple"
    /\ Takes(t)
    /\ NoCaller
    /\ served < MaxRequests
    /\ served' = served + 1
    /\ th' = [th EXCEPT ![t] =
                [Arrived("POST", s, p) EXCEPT
                   !.pc = "gen_check", !.role = "simple_next",
                   !.current = current_password, !.cur_src = "generator"]]
    /\ UNCHANGED <<process_vars, printed, generated_code_cache, generated_hash_code_cache,
                   current_password, next_password, rng, cookie, accepted, usage_log>>

\* the rest of POST /: the comparison and the JSON answer
SimpleFinishPost(t) ==
    /\ th[t].pc = "simple_have_next"
    /\ LET r   == th[t]
           cur == Get(r.current)
       IN  IF PasswordMatches(r.password, cur)
           THEN LET sess == MarkAuthenticated(r.session, cur)
                IN  /\ th' = [th EXCEPT ![t] =
                                [r EXCEPT !.pc = "respond", !.session = sess,
                                          !.resp = [NoResponse EXCEPT
                                                      !.status = 200,
                                                      !.current = r.current,
                                                      !.next = r.next]]]
                    /\ cookie' = [cookie EXCEPT ![r.sid] = sess]
           ELSE /\ th' = [th EXCEPT ![t] =
                            [r EXCEPT !.pc = "respond",
                                      !.resp = [NoResponse EXCEPT
                                                  !.status = 401,
                                                  !.current = r.current]]]
                /\ cookie' = cookie
    /\ accepted' = [accepted EXCEPT
                      ![th[t].sid] = @ \/ th[t].password = Get(th[t].current)]
    /\ UNCHANGED <<fixed_vars, printed, generated_code_cache, generated_hash_code_cache,
                   current_password, next_password, rng, usage_log>>

(***************************************************************************)
(* Pages behind the gate                                                   *)
(***************************************************************************)
\* a request of the browser of session s, or of a client without a session
\* cookie (sid 0)
ArrivedAt(route, s, fresh, p) ==
    IF fresh
    THEN [IdleThread EXCEPT !.kind = "PAGE", !.route = route, !.password = p]
    ELSE [Arrived("PAGE", s, p) EXCEPT !.route = route]

\* app_simple.py pages that test session.get('authenticated', False)
SimpleRoutes == {"/monitoring", "/monitoring/stats", "/knowledge-hub", "/data"}

\* the status of the refusal
Refusal(route) == IF route = "/data" THEN 403 ELSE 401

\* secrets.token_urlsafe(32)
Tokens == {"tok1", "tok2"}

\* the tokens the session holds
TokensOf(sess) ==
    IF sess.monitoring_tokens = None THEN {} ELSE Get(sess.monitoring_tokens)

\* app_simple.py GET /monitoring, /monitoring/stats, /knowledge-hub, /data;
\* bearer is the token of the Authorization header, if any
SimplePage(t, s, route, fresh, bearer) ==
    /\ program = "app_simple"
    /\ Takes(t)
    /\ served < MaxRequests
    /\ served' = served + 1
    /\ LET r == [ArrivedAt(route, s, fresh, <<>>) EXCEPT !.bearer = bearer]
       IN  th' = [th EXCEPT ![t] =
                    [r EXCEPT !.pc = "respond",
                              !.resp = [NoResponse EXCEPT !.status =
                                          IF r.session.authenticated THEN 200
                                          ELSE Refusal(route)]]]
    /\ UNCHANGED <<process_vars, printed, generated_code_cache, generated_hash_code_cache,
                   current_password, next_password, rng, cookie, accepted, usage_log>>

\* app_simple.py POST /monitoring/token with form field auth_code: the
\* first token of a session creates session['monitoring_tokens'], which
\* marks the session modified; a later token is put into the existing dict,
\* which does not
MonitoringToken(t, s, auth_code, fresh) ==
    /\ program = "app_simple"
    /\ Takes(t)
    /\ served < MaxRequests
    /\ served' = served + 1
    /\ LET r == ArrivedAt("/monitoring/token", s, fresh, auth_code)
       IN  IF ~r.session.authenticated
           THEN /\ th' = [th EXCEPT ![t] =
                            [r EXCEPT !.pc = "respond",
                                      !.resp = [NoResponse EXCEPT !.status = 401]]]
                /\ cookie' = cookie
           ELSE \E token \in Tokens :
                  LET sess == [r.session EXCEPT !.monitoring_tokens =
                                 Some(TokensOf(r.session) \cup {token})]
                  IN  /\ th' = [th EXCEPT ![t] =
                                  [r EXCEPT !.pc = "respond", !.session = sess,
                                            !.resp = [NoResponse EXCEPT
                                                        !.status = 200,
                                                        !.token = Some(token)]]]
                      /\ cookie' = IF r.session.monitoring_tokens = None
                                   THEN [cookie EXCEPT ![r.sid] = sess]
                                   ELSE cookie
    /\ UNCHANGED <<process_vars, printed, generated_code_cache, generated_hash_code_cache,
                   current_password, next_password, rng, accepted, usage_log>>

\* app.py GET /authenticated
AuthenticatedPage(t, s, fresh) ==
    /\ program = "app"
    /\ Takes(t)
    /\ NoCaller
    /\ served < MaxRequests
    /\ served' = served + 1
    /\ LET r == ArrivedAt("/authenticated", s, fresh, <<>>)
       IN  th' = [th EXCEPT ![t] =
                    [r EXCEPT !.pc = "respond",
                              !.resp =
                                 IF ~r.session.authenticated \/ r.session.auth_data = None
                                 THEN [NoResponse EXCEPT !.status = 302, !.location = "/"]
                                 ELSE [NoResponse EXCEPT !.status = 200]]]
    /\ UNCHANGED <<process_vars, printed, generated_code_cache, generated_hash_code_cache,
                   current_password, next_password, rng, cookie, accepted, usage_log>>

\* what get_or_create_visitor answers: a visitor aggregates the history of
\* its sessions, so last_access_code is a code recorded for the visitor in
\* any of them; a visitor created by this call has none
get_or_create_visitor(log, visitor_id) ==
    LET seen == {rec \in log : rec.kind = "visitor_access"}
    IN  [kind |-> "record",
         last_access_code |->
            IF visitor_id # None /\ seen # {}
            THEN Some((CHOOSE rec \in seen : TRUE).code) ELSE None]

\* get_visitor_data()['has_used_code']; visitor is what get_or_create_visitor
\* came to
get_visitor_data(sess, database_connection, visitor) ==
    IF database_connection /\ visitor.kind = "record"
    THEN visitor.last_access_code # None
    ELSE sess.authenticated

\* app.py GET /data
DataStream(t, s, fresh, visitor_id) ==
    /\ program = "app"
    /\ Takes(t)
    /\ NoCaller
    /\ served < MaxRequests
    /\ served' = served + 1
    /\ \E visitor \in {[kind |-> "error", last_access_code |-> None],
                        get_or_create_visitor(usage_log, visitor_id)} :
         LET r == ArrivedAt("/data", s, fresh, <<>>)
         IN  th' = [th EXCEPT ![t] =
                      [r EXCEPT !.pc = "respond",
                                !.resp = [NoResponse EXCEPT !.status =
                                            IF get_visitor_data(r.session, env.db, visitor)
                                            THEN 200 ELSE 403]]]
    /\ UNCHANGED <<process_vars, printed, generated_code_cache, generated_hash_code_cache,
                   current_password, next_password, rng, cookie, accepted, usage_log>>

Next ==
    \/ \E t \in Threads, s \in Sessions : StartGet(t, s)
    \/ \E t \in Threads, s \in Sessions : \E p \in Inputs(s) : StartPost(t, s, p)
    \/ \E t \in Threads : \E seed \in CallSeeds : StartCall(t, seed)
    \/ \E t \in Threads : GetCurrent(t)
    \/ \E t \in Threads : GenCheck(t)
    \/ \E t \in Threads : GenSeed(t)
    \/ \E t \in Threads : GenWord(t)
    \/ \E t \in Threads : GenSymbol(t)
    \/ \E t \in Threads : GenNumber(t)
    \/ \E t \in Threads : GenStore(t)
    \/ \E t \in Threads : FinishGet(t)
    \/ \E t \in Threads : PostCompare(t)
    \/ \E t \in Threads : GetNext(t)
    \/ \E t \in Threads : PostSuccess(t)
    \/ \E t \in Threads : Respond(t)
    \/ \E t \in Threads, s \in Sessions : StartRecover(t, s)
    \/ \E t \in Threads : FinishRecover(t)
    \/ \E t \in Threads, s \in Sessions : SimpleGet(t, s)
    \/ \E t \in Threads, s \in Sessions : \E p \in Inputs(s) : SimplePost(t, s, p)
    \/ \E t \in Threads : SimpleFinishPost(t)
    \/ \E t \in Threads, s \in Sessions, route \in SimpleRoutes, fresh \in BOOLEAN :
          \E bearer \in {None} \cup {Some(k) : k \in TokensOf(cookie[s])} :
             SimplePage(t, s, route, fresh, bearer)
    \/ \E t \in Threads, s \in Sessions, fresh \in BOOLEAN :
          \E auth_code \in Inputs(s) : MonitoringToken(t, s, auth_code, fresh)
    \/ \E t \in Threads, s \in Sessions, fresh \in BOOLEAN : AuthenticatedPage(t, s, fresh)
    \/ \E t \in Threads, s \in Sessions, fresh \in BOOLEAN :
          \E visitor_id \in VisitorCookies : DataStream(t, s, fresh, visitor_id)

Spec == Init /\ [][Next]_vars

\* the cookie of a browser whose last request was a failed POST / answered
\* by another worker or an earlier run of the deployment (the cookie is
\* signed with the same app.secret_key)
ReturningSession ==
    [EmptySession EXCEPT !.auth_error =
        Some([message |-> "Invalid password. Please try again.",
              current_code |-> CHOOSE c \in ShownBefore : TRUE,
              timestamp |-> 0])]

InitReturning ==
    /\ InitProcess
    /\ cookie = [s \in Sessions |->
                   IF program = "app" THEN ReturningSession ELSE EmptySession]

SpecReturning == InitReturning /\ [][Next]_vars
(***************************************************************************)
(* scripts/database/marketing_code_manager.py: MarketingCodeManager         *)
(* objects, each with its own sqlite3 connection to one database file.      *)
(* mcm.row is the committed marketing_codes row of the code "c1" together   *)
(* with the number of its code_usage_log rows; pending is what a            *)
(* connection has written and not yet committed.                            *)
(***************************************************************************)
\* the web applications are not part of a script's run
AppOff ==
    /\ program = "script" /\ env = Off /\ hash_key = 0
    /\ generated_code_cache = Off /\ generated_hash_code_cache = Off
    /\ current_password = Off /\ next_password = Off /\ rng = 0
    /\ printed = Off /\ cookie = Off /\ accepted = Off /\ usage_log = Off
    /\ served = 0 /\ th = Off

Managers == {1, 2}

IdleManager ==
    [pc |-> "idle", pending |-> [uses |-> 0, log |-> 0], result |-> ""]

\* is_code_valid(code) on what the connection reads
is_code_valid(row, code) ==
    IF code # "c1" THEN "Code not found"
    ELSE IF ~row.is_active THEN "Code is inactive"
    ELSE IF row.expired THEN "Code has expired"
    ELSE IF row.max_uses > 0 /\ row.current_uses >= row.max_uses
    THEN "Code usage limit reached"
    ELSE "valid"

\* the except clause of use_code without its rollback
RollbackSkipped(mgr) ==
    [mgr EXCEPT !.pc = "idle", !.result = "Database error"]

\* except Exception: self.connection.rollback();
\* return {'valid': False, 'reason': 'Database error'}
Rollback(mgr) ==
    [mgr EXCEPT !.pc = "idle", !.result = "Database error",
                !.pending = [uses |-> 0, log |-> 0]]

\* another connection holds the write lock of the database file
Locked(m) == \E u \in Managers \ {m} : mcm.mgr[u].pending # IdleManager.pending

\* use_code(code) up to the try block: validation = self.is_code_valid(code)
use_code(m, code) ==
    /\ mcm.mgr[m].pc = "idle"
    /\ mcm.calls < MaxCalls
    /\ LET mgr  == mcm.mgr[m]
           seen == [mcm.row EXCEPT !.current_uses = @ + mgr.pending.uses]
           v    == is_code_valid(seen, code)
       IN  mcm' = [mcm EXCEPT !.calls = @ + 1,
                              !.mgr[m] = IF v = "valid"
                                         THEN [mgr EXCEPT !.pc = "update", !.result = ""]
                                         ELSE [mgr EXCEPT !.result = v]]
    /\ UNCHANGED <<app_vars, live, pool, mig, bridge>>

\* the next statement of use_code's try block: the UPDATE of current_uses,
\* the INSERT into code_usage_log, the commit; each can raise
UseStatement(m) ==
    /\ mcm.mgr[m].pc \in {"update", "insert", "commit"}
    /\ \E raises \in BOOLEAN :
         LET mgr == mcm.mgr[m]
         IN  IF raises \/ (mgr.pc = "update" /\ Locked(m))
             THEN mcm' = [mcm EXCEPT !.mgr[m] = Rollback(mgr)]
             ELSE CASE mgr.pc = "update" ->
                         mcm' = [mcm EXCEPT !.mgr[m].pc = "insert",
                                            !.mgr[m].pending.uses = @ + 1]
                    [] mgr.pc = "insert" ->
                         mcm' = [mcm EXCEPT !.mgr[m].pc = "commit",
                                            !.mgr[m].pending.log = @ + 1]
                    [] OTHER ->
                         mcm' = [mcm EXCEPT
                                   !.row.current_uses = @ + mgr.pending.uses,
                                   !.row.log = @ + mgr.pending.log,
                                   !.mgr[m] = [mgr EXCEPT !.pc = "idle",
                                                 !.result = "Code used successfully",
                                                 !.pending = IdleManager.pending]]
    /\ UNCHANGED <<app_vars, live, pool, mig, bridge>>

\* update_code(code, max_uses=..., is_active=...): UPDATE and commit
update_code(m, max_uses, is_active) ==
    /\ mcm.mgr[m].pc = "idle"
    /\ mcm.calls < MaxCalls
    /\ LET mgr == mcm.mgr[m]
       IN  IF Locked(m)
           THEN mcm' = [mcm EXCEPT !.calls = @ + 1,
                                   !.mgr[m] = [mgr EXCEPT !.result = "False",
                                                 !.pending = IdleManager.pending]]
           ELSE mcm' = [mcm EXCEPT !.calls = @ + 1,
                                   !.row = [@ EXCEPT
                                              !.max_uses = max_uses,
                                              !.is_active = is_active,
                                              !.current_uses = @ + mgr.pending.uses,
                                              !.log = @ + mgr.pending.log],
                                   !.mgr[m] = [mgr EXCEPT !.result = "True",
                                                 !.pending = IdleManager.pending]]
    /\ UNCHANGED <<app_vars, live, pool, mig, bridge>>

\* a database with the code "c1", not yet used
InitCodes ==
    /\ AppOff
    /\ live = Off /\ pool = Off /\ mig = Off /\ bridge = Off
    /\ \E is_active \in BOOLEAN, expired \in BOOLEAN, max_uses \in {-1, 1, 2} :
         mcm = [row |-> [is_active |-> is_active, expired |-> expired,
                         max_uses |-> max_uses, current_uses |-> 0, log |-> 0],
                mgr |-> [m \in Managers |-> IdleManager],
                calls |-> 0]

NextCodes ==
    \/ \E m \in Managers, code \in {"c1", "nope"} : use_code(m, code)
    \/ \E m \in Managers : UseStatement(m)
    \/ \E m \in Managers, max_uses \in {0, 1, 2}, is_active \in BOOLEAN :
          update_code(m, max_uses, is_active)

SpecCodes == InitCodes /\ [][NextCodes]_vars

(***************************************************************************)
(* scripts/database/update_live_code.py: one LiveCodeUpdater on its        *)
(* database.  live.rows is the live_codes table in the order of insertion, *)
(* live.active the marketing codes with is_active = 1, live.last what the  *)
(* last call was given, found and answered.                                *)
(***************************************************************************)
CodeNames == {"a", "b", "c"}

\* get_live_codes(): the codes of the live rows of active codes, ORDER BY
\* rotation_order ASC (rotation_order grows with every insertion)
get_live_codes(rows, active) ==
    LET shown == SelectSeq(rows, LAMBDA r : r.is_live /\ r.code \in active)
    IN  [i \in 1..Len(shown) |-> shown[i].code]

\* the check of activate_code left out
AlreadyLiveUnchecked(rows, code) == FALSE

\* SELECT id FROM live_codes WHERE code_id = ? AND is_live = 1
AlreadyLive(rows, code) ==
    \E i \in 1..Len(rows) : rows[i].code = code /\ rows[i].is_live

\* UPDATE live_codes SET is_live = 0, deactivated_at = CURRENT_TIMESTAMP
\* WHERE code_id = ? AND is_live = 1
Deactivated(rows, codes) ==
    [i \in 1..Len(rows) |->
        IF rows[i].code \in codes /\ rows[i].is_live
        THEN [rows[i] EXCEPT !.is_live = FALSE, !.deactivated_at = TRUE]
        ELSE rows[i]]

\* activate_code(code); raises tells whether a statement of the try block
\* raised, which the except clause answers with rollback and False
activate_code(code, raises) ==
    /\ live.calls < MaxSteps
    /\ LET rows  == live.rows
           known == code \in CodeNames
           was   == AlreadyLive(rows, code)
           order == IF rows = <<>> THEN 1
                    ELSE 1 + CHOOSE n \in {rows[i].rotation_order : i \in 1..Len(rows)} :
                                 \A j \in 1..Len(rows) : rows[j].rotation_order <= n
           add   == known /\ ~was /\ ~raises
       IN  live' = [live EXCEPT
                      !.calls = @ + 1,
                      !.rows = IF add
                               THEN Append(rows, [code |-> code, is_live |-> TRUE,
                                                  deactivated_at |-> FALSE,
                                                  rotation_order |-> order])
                               ELSE rows,
                      !.last = [op |-> "activate", code |-> code, raised |-> raises,
                                before |-> rows, keep_count |-> 0,
                                result |-> known /\ ~raises]]
    /\ UNCHANGED <<app_vars, mcm, pool, mig, bridge>>

\* deactivate_code(code)
deactivate_code(code, raises) ==
    /\ live.calls < MaxSteps
    /\ LET rows == live.rows
       IN  live' = [live EXCEPT
                      !.calls = @ + 1,
                      !.rows = IF raises THEN rows ELSE Deactivated(rows, {code}),
                      !.last = [op |-> "deactivate", code |-> code, raised |-> raises,
                                before |-> rows, keep_count |-> 0,
                                result |-> code \in CodeNames /\ ~raises]]
    /\ UNCHANGED <<app_vars, mcm, pool, mig, bridge>>

\* rotate_codes(keep_count): get_live_codes(), then deactivate_code for
\* every code beyond the first keep_count; failing are the codes whose
\* deactivate_code raises (it then answers False, which rotate_codes does
\* not look at)
rotate_codes(keep_count, failing) ==
    /\ live.calls < MaxSteps
    /\ LET rows       == live.rows
           live_codes == get_live_codes(rows, live.active)
           beyond     == {live_codes[i] : i \in (keep_count + 1)..Len(live_codes)}
       IN  live' = [live EXCEPT
                      !.calls = @ + 1,
                      !.rows = Deactivated(rows, beyond \ failing),
                      !.last = [op |-> "rotate", code |-> "", before |-> rows,
                                raised |-> beyond \cap failing # {},
                                keep_count |-> keep_count, result |-> TRUE]]
    /\ UNCHANGED <<app_vars, mcm, pool, mig, bridge>>

InitLive ==
    /\ AppOff
    /\ mcm = Off /\ pool = Off /\ mig = Off /\ bridge = Off
    /\ \E active \in {CodeNames, CodeNames \ {"c"}} :
         live = [rows |-> <<>>, active |-> active, calls |-> 0,
                 last |-> [op |-> "", code |-> "", raised |-> FALSE, before |-> <<>>,
                           keep_count |-> 0, result |-> FALSE]]

NextLive ==
    \/ \E code \in CodeNames \cup {"nope"}, raises \in BOOLEAN : activate_code(code, raises)
    \/ \E code \in CodeNames \cup {"nope"}, raises \in BOOLEAN : deactivate_code(code, raises)
    \/ \E keep_count \in 0..2, failing \in SUBSET {"b", "c"} :
          rotate_codes(keep_count, failing)

SpecLive == InitLive /\ [][NextLive]_vars

(***************************************************************************)
(* scripts/database/database_connection_manager.py: one ConnectionPool     *)
(* used by the threads of a process.  pool.idle is the length of the       *)
(* queue, pool.open the connections created and not closed, held the       *)
(* connections a thread has got and not returned.                          *)
(***************************************************************************)
\* get_connection(), first statement: connections.get_nowait()
get_connection(t) ==
    /\ pool.calls < MaxSteps
    /\ pool.th[t].pc = "idle"
    /\ pool' = IF pool.idle > 0
               THEN [pool EXCEPT !.calls = @ + 1, !.idle = @ - 1,
                                 !.th[t].held = @ + 1, !.th[t].result = "reused"]
               ELSE [pool EXCEPT !.calls = @ + 1, !.th[t].pc = "check"]
    /\ UNCHANGED <<app_vars, mcm, live, mig, bridge>>

\* get_connection(), the next statement of the except queue.Empty branch:
\* the comparison with max_connections, _create_connection(), and the
\* increment under the lock
GetConnectionStep(t) ==
    /\ \/ /\ pool.th[t].pc = "check"
          /\ pool' = IF pool.active_connections < pool.max_connections
                     THEN [pool EXCEPT !.th[t].pc = "create"]
                     ELSE [pool EXCEPT !.th[t].pc = "idle", !.th[t].result = "None"]
       \/ /\ pool.th[t].pc = "create"
          /\ pool' = [pool EXCEPT !.open = @ + 1, !.th[t].pc = "count"]
       \/ /\ pool.th[t].pc = "count"
          /\ pool' = [pool EXCEPT !.active_connections = @ + 1,
                                  !.th[t].held = @ + 1,
                                  !.th[t].pc = "idle", !.th[t].result = "created"]
    /\ UNCHANGED <<app_vars, mcm, live, mig, bridge>>

\* return_connection(connection): put_nowait, and on queue.Full close the
\* connection and count it off
return_connection(t) ==
    /\ pool.th[t].pc = "idle"
    /\ pool.th[t].held > 0
    /\ pool' = IF pool.idle < pool.max_connections
               THEN [pool EXCEPT !.idle = @ + 1, !.th[t].held = @ - 1,
                                 !.th[t].result = "returned"]
               ELSE [pool EXCEPT !.open = @ - 1, !.active_connections = @ - 1,
                                 !.th[t].held = @ - 1, !.th[t].result = "closed"]
    /\ UNCHANGED <<app_vars, mcm, live, mig, bridge>>

InitPool ==
    /\ AppOff
    /\ mcm = Off /\ live = Off /\ mig = Off /\ bridge = Off
    /\ \E max_connections \in 1..2 :
         pool = [max_connections |-> max_connections, active_connections |-> 0,
                 idle |-> 0, open |-> 0, calls |-> 0,
                 th |-> [t \in Threads |-> [pc |-> "idle", held |-> 0, result |-> ""]]]

NextPool ==
    \E t \in Threads :
        \/ get_connection(t)
        \/ GetConnectionStep(t)
        \/ return_connection(t)

SpecPool == InitPool /\ [][NextPool]_vars

(***************************************************************************)
(* scripts/database/migrate_to_database.py: one DatabaseMigration on its   *)
(* database.  mig.recorded is the version column of schema_migrations in   *)
(* the order of insertion, mig.last what the last run_migrations was       *)
(* given, tried and answered.                                              *)
(***************************************************************************)
available_migrations == <<"001", "002", "003">>

\* get_pending_migrations(): the available migrations that are not among
\* get_applied_migrations(), which answers [] when its SELECT raises
get_pending_migrations(recorded, unreadable) ==
    LET applied_versions == IF unreadable THEN {} ELSE Range(recorded)
    IN  SelectSeq(available_migrations, LAMBDA v : v \notin applied_versions)

\* run_migrations() up to its loop: fault is the call of its own that raises
\* (create_migrations_table, or the SELECT of get_applied_migrations)
run_migrations(fault) ==
    /\ mig.runs < MaxSteps
    /\ mig.pc = "idle"
    /\ LET pending == IF fault = "create" THEN <<>>
                      ELSE get_pending_migrations(mig.recorded, fault = "read")
       IN  mig' = [mig EXCEPT
                     !.runs = @ + 1,
                     !.pc = IF pending = <<>> THEN "idle" ELSE "apply",
                     !.pending = pending,
                     !.last = [before |-> mig.recorded, fault |-> fault,
                               tried |-> <<>>, failed |-> "",
                               result |-> fault # "create" /\ pending = <<>>]]
    /\ UNCHANGED <<app_vars, mcm, live, pool, bridge>>

\* one turn of the loop of run_migrations: apply_migration of the next
\* pending migration, where raises names the statement that raises (one of
\* the SQL commands, or the INSERT of record_migration, which also raises
\* for a version recorded already: version TEXT UNIQUE)
apply_migration(raises) ==
    /\ mig.pc = "apply"
    /\ LET version == Head(mig.pending)
           failed  == raises # "none" \/ version \in Range(mig.recorded)
           rest    == Tail(mig.pending)
       IN  mig' = [mig EXCEPT
                     !.recorded = IF failed THEN @ ELSE Append(@, version),
                     !.executed = IF raises = "sql" THEN @ ELSE @ \cup {version},
                     !.pending = IF failed THEN <<>> ELSE rest,
                     !.pc = IF failed \/ rest = <<>> THEN "idle" ELSE "apply",
                     !.last.tried = Append(@, version),
                     !.last.failed = IF failed THEN version ELSE "",
                     !.last.result = ~failed /\ rest = <<>>]
    /\ UNCHANGED <<app_vars, mcm, live, pool, bridge>>

InitMigrate ==
    /\ AppOff
    /\ mcm = Off /\ live = Off /\ pool = Off /\ bridge = Off
    /\ mig = [recorded |-> <<>>, executed |-> {}, pending |-> <<>>,
              runs |-> 0, pc |-> "idle",
              last |-> [before |-> <<>>, fault |-> "none", tried |-> <<>>,
                        failed |-> "", result |-> FALSE]]

NextMigrate ==
    \/ \E fault \in {"none", "create", "read"} : run_migrations(fault)
    \/ \E raises \in {"none", "sql", "record"} : apply_migration(raises)

SpecMigrate == InitMigrate /\ [][NextMigrate]_vars

(***************************************************************************)
(* scripts/clipboard/zaido_clipboard_bridge.py: one ZaidoClipboardBridge.  *)
(* bridge.now is datetime.now() in seconds, bridge.posts the requests      *)
(* sent, bridge.last what the last sync_clipboard_data found and answered. *)
(***************************************************************************)
\* _should_sync() with no interval to wait for
should_sync_always(last_sync_time, now) == TRUE

\* _should_sync()
should_sync(last_sync_time, now) ==
    \/ last_sync_time = None
    \/ now - Get(last_sync_time) >= sync_interval

\* sync_clipboard_data(clipboard_data): content_hash is the entry of that
\* name in clipboard_data ("" when it has none), answer what session.post
\* meets (an HTTP status, a body that is no JSON, or a RequestException),
\* took the seconds the request takes
sync_clipboard_data(content_hash, answer, took) ==
    /\ bridge.calls < MaxSteps
    /\ bridge.now + took <= MaxClock
    /\ LET due   == should_sync(bridge.last_sync_time, bridge.now)
           ok    == due /\ answer = "200"
           after == bridge.now + (IF due THEN took ELSE 0)
       IN  bridge' = [bridge EXCEPT
                        !.calls = @ + 1,
                        !.now = after,
                        !.posts = IF due THEN @ + 1 ELSE @,
                        !.last_sync_time = IF ok THEN Some(after) ELSE @,
                        !.clipboard_cache =
                            IF ok /\ content_hash # "" THEN @ \cup {content_hash} ELSE @,
                        !.last = [at |-> bridge.now, sent |-> due,
                                  last_sync_time |-> bridge.last_sync_time,
                                  clipboard_cache |-> bridge.clipboard_cache,
                                  status |-> IF ~due THEN "skipped"
                                             ELSE IF ok THEN "success" ELSE "error"]]
    /\ UNCHANGED <<app_vars, mcm, live, pool, mig>>

\* datetime.now() moves on between two calls
Tick(seconds) ==
    /\ bridge.now + seconds <= MaxClock
    /\ bridge' = [bridge EXCEPT !.now = @ + seconds]
    /\ UNCHANGED <<app_vars, mcm, live, pool, mig>>

InitSync ==
    /\ AppOff
    /\ mcm = Off /\ live = Off /\ pool = Off /\ mig = Off
    /\ bridge = [now |-> 0, last_sync_time |-> None, clipboard_cache |-> {},
                 posts |-> 0, calls |-> 0,
                 last |-> [at |-> 0, sent |-> FALSE, last_sync_time |-> None,
                           clipboard_cache |-> {}, status |-> ""]]

NextSync ==
    \/ \E content_hash \in {"", "h"}, answer \in {"200", "500", "no json", "network error"},
          took \in {0, 5} : sync_clipboard_data(content_hash, answer, took)
    \/ \E seconds \in {10, 25} : Tick(seconds)

SpecSync == InitSync /\ [][NextSync]_vars

(***************************************************************************)
(* Properties                                                              *)
(***************************************************************************)
\* the thread has resolved the current code and is (or was) comparing
Compared(t) ==
    /\ th[t].kind = "POST"
    /\ th[t].pc = "respond"
    /\ th[t].current # None

\* a resolver call of the thread has just returned or entered the generator
JustResolved(t, role) ==
    IF role = "current"
    THEN \/ th[t].pc = "have_current" /\ th[t].cur_src # "generator"
         \/ th[t].pc = "gen_check" /\ th[t].role = "current"
    ELSE \/ th[t].pc = "have_next" /\ th[t].next_src # "generator"
         \/ th[t].pc = "gen_check" /\ th[t].role = "next"

\* C1: a POST / whose password equals the resolved current code leaves the
\* handler's session with authenticated = True and last_access_code = that
\* code, and hands the resolved next code to the caller (app.py: in
\* session['auth_data'] behind the redirect to /authenticated; app_simple.py:
\* in the JSON answer).
C1_GateSuccess ==
    \A t \in Threads :
        (Compared(t) /\ th[t].password = Get(th[t].current)) =>
            /\ th[t].session.authenticated
            /\ th[t].session.last_access_code = th[t].current
            /\ th[t].next # None
            /\ th[t].resp.next = th[t].next
            /\ th[t].resp.current = th[t].current
            /\ program = "app" =>
                 /\ th[t].resp.location = "/authenticated"
                 /\ th[t].session.auth_data =
                      Some([current_marketing_code |-> Get(th[t].current),
                            next_marketing_code |-> Get(th[t].next)])
            /\ program = "app_simple" => th[t].resp.status = 200

C1_Witness ==
    \E t \in Threads :
        /\ Compared(t)
        /\ th[t].password = Get(th[t].current)
        /\ th[t].cur_src = "generator"
        /\ program = "app"

\* C2: a POST / with a string other than the resolved current code leaves a
\* session that never posted the code unauthenticated and answers with the
\* current code as the hint; and a session is authenticated, in the cookie
\* or in a handler, only if a POST of that session carried the code current
\* at that time.
C2_GateMismatch ==
    /\ \A s \in Sessions : cookie[s].authenticated => accepted[s]
    /\ \A t \in Threads :
         /\ (th[t].kind # "none" /\ th[t].kind # "CALL" /\ th[t].session.authenticated)
               => accepted[th[t].sid]
         /\ (Compared(t) /\ th[t].password # Get(th[t].current)) =>
               /\ th[t].next = None \/ program = "app_simple"
               /\ IF program = "app"
                  THEN /\ th[t].resp.error # None
                       /\ Get(th[t].resp.error).current_code = Get(th[t].current)
                       /\ th[t].session.auth_error = th[t].resp.error
                       /\ th[t].resp.location = "/?error=auth_failed"
                  ELSE /\ th[t].resp.status = 401
                       /\ th[t].resp.current = th[t].current
                       /\ th[t].resp.next = None

C2_Witness ==
    \E t \in Threads :
        /\ Compared(t)
        /\ th[t].password = WrongCase
        /\ Get(th[t].current) = OverrideGood
        /\ ~th[t].session.authenticated
        /\ Get(th[t].resp.error).current_code = OverrideGood

\* C3: the resolver answers with the first step, in the order database (only
\* when DATABASE_CONNECTION_STRING is set), Secret Manager, BUILD_MARKETING_CODE
\* (current role only), generator, that yields a non-empty code, and a later
\* step runs only if every earlier one errored or yielded nothing.
C3_OrderedFallback ==
    \A t \in Threads :
        /\ JustResolved(t, "current") =>
             LET d == th[t].db_out
                 m == th[t].sm_out
             IN  /\ d.kind # "not_consulted"
                 /\ (d.kind = "skipped") = ~env.db
                 /\ IF Truthy(d)
                    THEN /\ th[t].pc = "have_current"
                         /\ th[t].current = Some(d.code)
                         /\ m.kind = "not_consulted"
                    ELSE /\ m.kind # "not_consulted"
                         /\ IF Truthy(m)
                            THEN /\ th[t].pc = "have_current"
                                 /\ th[t].current = Some(m.code)
                            ELSE IF env.override # None
                            THEN /\ th[t].pc = "have_current"
                                 /\ th[t].current = env.override
                            ELSE th[t].pc = "gen_check"
        /\ JustResolved(t, "next") =>
             LET d == th[t].db_out
                 m == th[t].sm_out
             IN  /\ d.kind # "not_consulted"
                 /\ (d.kind = "skipped") = ~env.db
                 /\ IF Truthy(d)
                    THEN /\ th[t].pc = "have_next"
                         /\ th[t].next = Some(d.code)
                         /\ m.kind = "not_consulted"
                    ELSE /\ m.kind # "not_consulted"
                         /\ IF Truthy(m)
                            THEN /\ th[t].pc = "have_next"
                                 /\ th[t].next = Some(m.code)
                            ELSE th[t].pc = "gen_check"
        /\ (th[t].pc = "have_current" /\ th[t].cur_src = "generator")
             => env.override = None

C3_Witness ==
    \E t \in Threads :
        /\ JustResolved(t, "current")
        /\ th[t].db_out.kind = "none"
        /\ th[t].sm_out.kind = "error"
        /\ th[t].current = Some(OverrideGood)

\* C4: whatever the database and Secret Manager steps come to, no resolver
\* call raises: the call returns a string or goes on to the generator; an
\* error in step 1 in particular leaves step 4 reachable.
C4_ResolverNeverFails ==
    \A t \in Threads :
        /\ th[t].pc # "raised"
        /\ \A role \in {"current", "next"} :
             (JustResolved(t, role) /\ th[t].db_out.kind = "error") =>
                \/ th[t].pc = "gen_check"
                \/ /\ th[t].pc = "have_current"
                   /\ th[t].current # None
                   /\ Len(Get(th[t].current)) > 0
                \/ /\ th[t].pc = "have_next"
                   /\ th[t].next # None
                   /\ Len(Get(th[t].next)) > 0

C4_Witness ==
    \E t \in Threads :
        /\ JustResolved(t, "next")
        /\ th[t].db_out.kind = "error"
        /\ th[t].sm_out.kind = "error"
        /\ th[t].pc = "gen_check"

\* the current (next) code of the thread came from a step after the stores
CurrentPastStores(t) ==
    th[t].current # None /\ th[t].cur_src \in {"environment", "generator"}

NextPastStores(t) == th[t].next # None /\ th[t].next_src = "generator"

\* C5 as stated: with the database and the Secret Manager unavailable, the
\* resolved code of either role is non-empty and matches
\* ^[A-Z]+[0-9]{2,3}[!@#$%^&*+=?~]$ in every environment.
C5_Original ==
    \A t \in Threads :
        /\ CurrentPastStores(t) => FormatValid(Get(th[t].current))
        /\ NextPastStores(t) => FormatValid(Get(th[t].next))

\* C5 as amended: with the stores yielding nothing the resolved code is
\* non-empty; it matches the pattern whenever the generator made it (the
\* next role always, the current role when BUILD_MARKETING_CODE is unset);
\* a set BUILD_MARKETING_CODE is returned as it is.
C5_FallbackCompleteness ==
    \A t \in Threads :
        /\ CurrentPastStores(t) =>
             /\ Get(th[t].current) # <<>>
             /\ th[t].cur_src = "environment" => th[t].current = env.override
             /\ th[t].cur_src = "generator" =>
                  /\ FormatValid(Get(th[t].current))
                  /\ env.override = None
        /\ NextPastStores(t) => FormatValid(Get(th[t].next))

C5_Witness ==
    \E t \in Threads :
        /\ CurrentPastStores(t)
        /\ th[t].cur_src = "environment"
        /\ ~FormatValid(Get(th[t].current))
        /\ th[t].sm_out.kind = "error"

\* the number of leading capital letters of a string
RECURSIVE LeadingLetters(_)
LeadingLetters(str) ==
    IF str # <<>> /\ Head(str) \in UpperLetters
    THEN 1 + LeadingLetters(Tail(str)) ELSE 0

\* code is a word of words, then an integer of 10..999 in decimal, then a
\* symbol of symbols
WordNumberSymbol(words, symbols, code) ==
    LET n == Len(code)
        k == LeadingLetters(code)
    IN  /\ k >= 1
        /\ SubSeq(code, 1, k) \in Range(words)
        /\ n - 1 - k \in {2, 3}
        /\ \A i \in (k + 1)..(n - 1) : code[i] \in Range(DigitChars)
        /\ code[k + 1] # "0"
        /\ code[n] \in Range(symbols)

\* C8: every value the generators produce is WORD + NUMBER + SYMBOL with the
\* word from the function's word list, the number in 10..999 and the symbol
\* from its symbol list, so it matches ^[A-Z]+[0-9]{2,3}[!@#$%^&*+=?~]$; no
\* seed, the empty string included, makes a generator raise.
C8_FormatInvariant ==
    /\ \A c \in {generated_code_cache} \ {None} :
         /\ WordNumberSymbol(marketing_words, ascii_symbols, Get(c))
         /\ FormatValid(Get(c))
    /\ \A k \in DOMAIN generated_hash_code_cache :
         /\ WordNumberSymbol(marketing_words, ascii_symbols, generated_hash_code_cache[k])
         /\ FormatValid(generated_hash_code_cache[k])
    /\ \A c \in {current_password} \ {None} :
         /\ WordNumberSymbol(simple_words, simple_symbols, Get(c))
         /\ FormatValid(Get(c))
    /\ \A c \in {next_password} \ {None} :
         /\ WordNumberSymbol(next_words, simple_symbols, Get(c))
         /\ FormatValid(Get(c))
    /\ \A t \in Threads :
         /\ th[t].pc # "raised"
         /\ th[t].pc = "gen_store" =>
              /\ th[t].word \in Range(WordsOf(th[t].role))
              /\ th[t].number \in randint_lo..randint_hi
              /\ th[t].symbol \in Range(SymbolsOf(th[t].role))
         /\ (th[t].next # None /\ th[t].next_src = "generator") =>
              FormatValid(Get(th[t].next))
         /\ (th[t].current # None /\ th[t].cur_src = "generator") =>
              FormatValid(Get(th[t].current))

C8_Witness ==
    /\ <<>> \in DOMAIN generated_hash_code_cache
    /\ <<"1","a","2","B">> \in DOMAIN generated_hash_code_cache
    /\ \E t \in Threads : th[t].pc = "respond" /\ th[t].kind = "CALL"

\* the thread holds what a generator call for the current code returned
HoldsCurrent(t) == th[t].current # None /\ th[t].cur_src = "generator"

\* the thread holds what a generator call for seed returned
HoldsFromHash(t, seed) ==
    /\ th[t].next # None
    /\ th[t].next_src = "generator"
    /\ th[t].role \in {"next", "call"}
    /\ th[t].seed = seed

\* C6: two calls of a generator with the same seed in one process return
\* identical strings.
C6_DeterminismWithinRun ==
    \A t1, t2 \in Threads :
        /\ (HoldsCurrent(t1) /\ HoldsCurrent(t2)) => th[t1].current = th[t2].current
        /\ \A seed \in CallSeeds \cup {NextHash(env)} :
             (HoldsFromHash(t1, seed) /\ HoldsFromHash(t2, seed))
                => th[t1].next = th[t2].next

\* C7: the numeric seed a seed string gives, and so the code generated from
\* it, is the same in every fresh process of the deployment, whatever
\* string-hash key the process started with.
C7_DeterminismAcrossRuns ==
    \A t \in Threads : \A key \in HashKeys :
        /\ (th[t].pc = "gen_seed" /\ th[t].role \in {"next", "call"})
              => th[t].hash_num = SeedNumber(key, th[t].seed)
        /\ (th[t].pc = "gen_seed" /\ th[t].role = "current")
              => th[t].hash_num = HexToInt(CommitHash(env))

\* C9: a request that finds the seed cached returns the stored value without
\* running the generator body, and a cache entry, once written, is never
\* overwritten with another value or removed.
C9_CacheIdempotence ==
    [][ /\ generated_code_cache # None => generated_code_cache' = generated_code_cache
        /\ current_password # None => current_password' = current_password
        /\ next_password # None => next_password' = next_password
        /\ \A k \in DOMAIN generated_hash_code_cache :
             /\ k \in DOMAIN generated_hash_code_cache'
             /\ generated_hash_code_cache'[k] = generated_hash_code_cache[k]
        /\ \A t \in Threads :
             (/\ th[t].pc = "gen_check"
              /\ th'[t].pc # "gen_check"
              /\ Cached(th[t].role, th[t].seed) # None)
               => /\ th'[t].pc \notin {"gen_seed", "gen_word", "gen_symbol",
                                       "gen_number", "gen_store"}
                  /\ rng' = rng
                  /\ IF th[t].role = "current"
                     THEN th'[t].current = Cached(th[t].role, th[t].seed)
                     ELSE th'[t].next = Cached(th[t].role, th[t].seed)
      ]_vars

\* what a generator call that no other thread interleaves with returns
SingleThreaded(role, seed) ==
    CASE role = "current" ->
           {Generate(marketing_words, ascii_symbols, HexToInt(CommitHash(env)))}
      [] role = "simple_next" ->
           {Generate(next_words, simple_symbols, HexToInt(Md5Hex8(id \o "_next"))) :
              id \in IF env.build_id # None THEN {Get(env.build_id)} ELSE Timestamps}
      [] OTHER ->
           {Generate(marketing_words, ascii_symbols, SeedNumber(hash_key, seed))}

\* C10: with request threads interleaving their seed / choice / randint
\* steps in any order, every value written to a cache or returned equals
\* what a single-threaded generation from the same seed produces.
C10_LockFreeCacheSafety ==
    /\ \A c \in {generated_code_cache} \ {None} :
         Get(c) \in SingleThreaded("current", <<>>)
    /\ \A c \in {next_password} \ {None} :
         Get(c) \in SingleThreaded("simple_next", <<>>)
    /\ \A k \in DOMAIN generated_hash_code_cache :
         generated_hash_code_cache[k] \in SingleThreaded("next", k)
    /\ \A t \in Threads :
         /\ (HoldsCurrent(t) /\ program = "app")
               => Get(th[t].current) \in SingleThreaded("current", <<>>)
         /\ \A seed \in CallSeeds \cup {NextHash(env)} :
              HoldsFromHash(t, seed) => Get(th[t].next) \in SingleThreaded("next", seed)

\* C11: once the session cookie says authenticated it says so after every
\* later step of the program: no response replaces it with a session that
\* is not authenticated.
C11_NoLogout ==
    [][\A s \in Sessions : cookie[s].authenticated => cookie'[s].authenticated]_vars

\* the thread's POST / carried the current code and has its answer
Succeeded(t) ==
    /\ Compared(t)
    /\ th[t].password = Get(th[t].current)
    /\ th[t].next # None

\* C12: the next code a successful submission exposes differs from the
\* current code that was just accepted, whatever the deployment's seed.
C12_NextDiffersFromCurrent ==
    \A t \in Threads : Succeeded(t) => th[t].next # th[t].current

\* C13: in every resolver call, each step that came to a log statement (it
\* errored, found nothing, or was the step used) has emitted its line.
C13_EveryStepLogged ==
    \A t \in Threads : th[t].due \subseteq th[t].logged

\* C14: with the generator fallback in use, the current and the next code a
\* request resolved are the codes the process holds for every later
\* resolution: no view or submission, failed or successful, changes them.
C14_NoInProcessRotation ==
    \A t \in Threads :
        /\ (HoldsCurrent(t) /\ program = "app")
              => th[t].current = generated_code_cache
        /\ (HoldsCurrent(t) /\ program = "app_simple")
              => th[t].current = current_password
        /\ (th[t].next # None /\ th[t].next_src = "generator" /\ th[t].role = "next")
              => th[t].next = Cached("next", NextHash(env))
        /\ (th[t].next # None /\ th[t].next_src = "generator"
               /\ th[t].role = "simple_next")
              => th[t].next = next_password

\* the deployments that differ from e at most in BUILD_MARKETING_CODE
OverrideVariants(e) ==
    {[e EXCEPT !.override = o] : o \in {None, Some(OverrideGood), Some(OverrideBad)}}

\* C15: the override decides the current role only: the next code a run
\* resolves is the one every run of a deployment that differs only in
\* BUILD_MARKETING_CODE resolves, and the current code is the override
\* whenever it is set and the two stores yielded nothing.
C15_OverrideCurrentOnly ==
    \A t \in Threads :
        /\ (th[t].next # None /\ th[t].next_src = "generator" /\ th[t].role = "next")
              => \A e \in OverrideVariants(env), key \in HashKeys :
                    Get(th[t].next) =
                      Generate(marketing_words, ascii_symbols,
                               SeedNumber(key, NextHash(e)))
        /\ (JustResolved(t, "current") /\ th[t].pc = "have_current"
               /\ ~Truthy(th[t].db_out) /\ ~Truthy(th[t].sm_out))
              => (env.override # None /\ th[t].current = env.override)

\* C16: recording the use never blocks the gate: whatever goes wrong with
\* the database client, the step that follows the resolution of the next
\* code ends in the redirect to /authenticated with the session
\* authenticated; the usage log only grows, and only by records of the code
\* a request has just submitted successfully.
C16_UsageNeverBlocksGate ==
    [][/\ \A t \in Threads :
            (th[t].pc = "have_next" /\ th'[t].pc # "have_next")
              => /\ th'[t].pc = "respond"
                 /\ th'[t].resp.status = 302
                 /\ th'[t].resp.location = "/authenticated"
                 /\ th'[t].session.authenticated
                 /\ th'[t].session.last_access_code = th[t].current
                 /\ cookie'[th[t].sid].authenticated
       /\ usage_log \subseteq usage_log'
       /\ usage_log' # usage_log
            => \E t \in Threads :
                  /\ th[t].pc = "have_next" /\ th'[t].pc = "respond"
                  /\ th[t].password = Get(th[t].current)
                  /\ \A rec \in usage_log' \ usage_log :
                        rec.success /\ rec.code = th[t].password]_vars

\* a correct submission was answered with a database configured although
\* nothing could be recorded
C16_Witness ==
    /\ env.db
    /\ usage_log = {}
    /\ \E t \in Threads :
          /\ th[t].pc = "respond" /\ th[t].resp.location = "/authenticated"
          /\ th[t].session.authenticated
          /\ th[t].password = Get(th[t].current)

\* the code of the most recent success of a history given newest first,
\* else the code of its most recent row
MostRecent(rows) ==
    IF \E i \in 1..Len(rows) : rows[i].success
    THEN rows[CHOOSE i \in 1..Len(rows) :
                /\ rows[i].success
                /\ \A j \in 1..(i - 1) : ~rows[j].success].access_code
    ELSE rows[1].access_code

\* the recovery of the thread has its result
Recovered(t) ==
    /\ th[t].kind = "RECOVER"
    /\ th[t].pc = "respond"
    /\ th[t].recovery # None

\* C17: for every visitor history, attempt_code_recovery suggests the most
\* recent successful code if there is one (also when unsuccessful attempts
\* came later), else the most recent attempted code, else the live current
\* code; the history is searched newest first.
C17_RecoveryOrdering ==
    \A t \in Threads :
        Recovered(t) =>
            IF th[t].history.rows # <<>>
            THEN Get(th[t].recovery).suggested_code = MostRecent(th[t].history.rows)
            ELSE Get(th[t].recovery).suggested_code = Get(th[t].current)

\* C18: attempt_code_recovery never raises and always returns success=True
\* with a non-empty suggested_code; without a database, without history and
\* when a step of the recovery raises, the suggestion is the live current
\* code and recovery_method names the case.
C18_RecoveryAlwaysYields ==
    \A t \in Threads :
        th[t].kind = "RECOVER" =>
            /\ th[t].pc # "raised"
            /\ Recovered(t) =>
                  LET r == Get(th[t].recovery)
                  IN  /\ r.success
                      /\ r.suggested_code # <<>>
                      /\ ~env.db =>
                            /\ r.recovery_method = "current_code_fallback"
                            /\ r.suggested_code = Get(th[t].current)
                      /\ (env.db /\ th[t].history.kind = "error") =>
                            /\ r.recovery_method = "current_code_error_fallback"
                            /\ r.suggested_code = Get(th[t].current)
                      /\ (env.db /\ th[t].history = [kind |-> "rows", rows |-> <<>>]) =>
                            /\ r.recovery_method = "current_code_no_history"
                            /\ r.suggested_code = Get(th[t].current)

\* a recovery whose history lookup raised has answered, next to one that
\* found no history
C18_Witness ==
    \E t, u \in Threads :
        /\ Recovered(t) /\ th[t].history.kind = "error"
        /\ Recovered(u) /\ th[u].history = [kind |-> "rows", rows |-> <<>>]
        /\ env.db

\* the thread has answered a request for a page behind the gate
Answered(t) == th[t].kind = "PAGE" /\ th[t].pc = "respond"

\* C19: a request whose session is not authenticated gets 401 from
\* /monitoring, /monitoring/stats, /monitoring/token and /knowledge-hub, 403
\* from /data and a redirect to / from /authenticated; a protected page is
\* served only to a session that has submitted the current code.
C19_ProtectedPages ==
    \A t \in Threads :
        Answered(t) =>
            /\ ~th[t].session.authenticated =>
                  IF th[t].route = "/authenticated"
                  THEN th[t].resp.status = 302 /\ th[t].resp.location = "/"
                  ELSE th[t].resp.status = Refusal(th[t].route)
            /\ th[t].resp.status = 200 =>
                  th[t].sid \in Sessions /\ accepted[th[t].sid]

\* C20: POST /monitoring/token returns a token exactly when auth_code is
\* the current code and answers 403 otherwise; GET /monitoring/stats with
\* an issued token as Bearer is served.
C20_TokenDecidesOnAuthCode ==
    \A t \in Threads :
        /\ (Answered(t) /\ th[t].route = "/monitoring/token") =>
              IF th[t].password = Get(current_password)
              THEN th[t].resp.status = 200 /\ th[t].resp.token # None
              ELSE th[t].resp.status = 403 /\ th[t].resp.token = None
        /\ (Answered(t) /\ th[t].route = "/monitoring/stats" /\ th[t].bearer # None) =>
              th[t].resp.status = 200

\* C22: after a POST / with the correct code the session holds no
\* auth_error of an earlier failed submission, so the next GET / shows no
\* 'Invalid password' message.
C22_NoStaleError ==
    \A t \in Threads :
        (th[t].kind = "POST" /\ th[t].pc = "respond"
           /\ th[t].resp.location = "/authenticated")
          => /\ th[t].session.auth_error = None
             /\ cookie[th[t].sid].auth_error = None

\* the thread has rendered the landing page
Rendered(t) == th[t].kind = "GET" /\ th[t].pc = "respond"

\* C21: the error of a failed POST / is shown once: the GET / that shows it
\* removes it from the session, and no second GET / shows the same error.
C21_ErrorShownOnce ==
    \A t \in Threads :
        Rendered(t) =>
            /\ th[t].session.auth_error = None
            /\ \A u \in Threads \ {t} :
                  (Rendered(u) /\ th[t].resp.error # None)
                    => th[u].resp.error # th[t].resp.error

\* the current codes the worker processes of this deployment come to when
\* no store answers: each worker runs the same module code on the same
\* checkout and environment, at its own start time
WorkerCodes ==
    IF program = "app_simple"
    THEN {Generate(simple_words, simple_symbols,
                   HexToInt(Md5Hex8(IF env.build_id # None
                                    THEN Get(env.build_id) ELSE ts))) :
            ts \in Timestamps}
    ELSE IF env.override # None THEN {Get(env.override)}
    ELSE {Generate(marketing_words, ascii_symbols, HexToInt(CommitHash(env)))}

\* C23: with no external store, the code one worker displays on GET / is
\* the current code of every worker of the deployment, so it authenticates
\* when it is posted to any other worker.
C23_WorkersAgree ==
    \A t \in Threads :
        (Rendered(t) /\ th[t].cur_src \in {"environment", "generator"})
          => \A code \in WorkerCodes :
                PasswordMatches(Get(th[t].resp.current), code)

\* C24: for a code with max_uses > 0, current_uses never exceeds max_uses,
\* whatever use_code and update_code calls the managers of one database
\* make; codes with max_uses <= 0 are unlimited.
C24_UsageLimit ==
    mcm.row.max_uses > 0 => mcm.row.current_uses <= mcm.row.max_uses

\* C25: use_code is all-or-nothing: a call that answers 'Code used
\* successfully' has added exactly one use and one log row, any other
\* answer has added nothing, and the log rows of the code number its
\* current_uses.
C25_UseCodeAtomic ==
    /\ mcm.row.log = mcm.row.current_uses
    /\ \A m \in Managers :
          mcm.mgr[m].pc = "idle" => mcm.mgr[m].pending = IdleManager.pending

\* a use failed after its UPDATE and a later use went through
C25_Witness ==
    /\ mcm.row.current_uses = 1
    /\ \E m, u \in Managers :
          /\ mcm.mgr[m].result = "Database error"
          /\ mcm.mgr[u].result = "Code used successfully"

\* C26: each code has at most one live row; activating a live code and
\* deactivating a code that is not live answer True and change nothing; a
\* newly activated code gets the highest rotation_order so far plus one; a
\* call in which a statement raises answers False and changes nothing.
C26_ActivationIdempotent ==
    LET rows   == live.rows
        before == live.last.before
        was    == \E i \in 1..Len(before) :
                     before[i].code = live.last.code /\ before[i].is_live
    IN  /\ \A i, j \in 1..Len(rows) :
              (rows[i].is_live /\ rows[j].is_live /\ rows[i].code = rows[j].code)
                => i = j
        /\ (live.last.op = "activate" /\ was /\ ~live.last.raised)
              => live.last.result /\ rows = before
        /\ (live.last.op = "deactivate" /\ ~was /\ ~live.last.raised
               /\ live.last.code \in CodeNames)
              => live.last.result /\ rows = before
        /\ (live.last.op \in {"activate", "deactivate"} /\ live.last.raised)
              => ~live.last.result /\ rows = before
        /\ (live.last.op = "activate" /\ Len(rows) > Len(before))
              => /\ Len(rows) = Len(before) + 1
                 /\ rows[Len(rows)].code = live.last.code
                 /\ \A i \in 1..Len(before) :
                       before[i].rotation_order < rows[Len(rows)].rotation_order
                 /\ before = <<>> \/ \E i \in 1..Len(before) :
                       before[i].rotation_order + 1 = rows[Len(rows)].rotation_order

\* a code that was live, was deactivated and activated again has just been
\* activated once more
C26_Witness ==
    /\ live.last.op = "activate" /\ live.last.result
    /\ live.rows = live.last.before
    /\ \E i, j \in 1..Len(live.rows) :
          /\ i < j /\ live.rows[i].code = live.last.code
          /\ live.rows[j].code = live.last.code
          /\ ~live.rows[i].is_live /\ live.rows[j].is_live

\* C27: after rotate_codes(keep_count) has answered True, get_live_codes
\* reports at most keep_count codes: the first keep_count of those it
\* reported before; every other code it reported before is no longer live
\* and has deactivated_at set; with at most keep_count live codes nothing
\* changes.
C27_RotateKeepsCount ==
    (live.last.op = "rotate" /\ live.last.result)
      => LET was == get_live_codes(live.last.before, live.active)
             now == get_live_codes(live.rows, live.active)
             k   == live.last.keep_count
         IN  /\ Len(now) <= k
             /\ now = SubSeq(was, 1, IF Len(was) < k THEN Len(was) ELSE k)
             /\ \A i \in 1..Len(live.rows) :
                   (live.rows[i].code \in Range(was) \ Range(now)
                      /\ live.last.before[i].is_live)
                     => ~live.rows[i].is_live /\ live.rows[i].deactivated_at
             /\ Len(was) <= k => live.rows = live.last.before

\* C28: active_connections never exceeds max_connections; whenever no
\* get_connection is under way it equals the number of connections created
\* and not closed; a get_connection that finds max_connections connections
\* and none idle answers None.
C28_PoolBound ==
    /\ pool.active_connections <= pool.max_connections
    /\ pool.open <= pool.max_connections
    /\ (\A t \in Threads : pool.th[t].pc = "idle")
          => pool.open = pool.active_connections


\* C29: run_migrations tries the pending migrations, those not recorded
\* before, in ascending version order and records each version once; it stops
\* at the first that fails, which stays unrecorded with all later ones; a
\* run after a fully successful one tries nothing and answers True.
C29_MigrationsOnce ==
    LET l        == mig.last
        recorded == mig.recorded
        all      == Range(available_migrations)
    IN  /\ recorded = SubSeq(available_migrations, 1, Len(recorded))
        /\ (mig.runs > 0 /\ mig.pc = "idle") =>
              /\ \A i \in 1..Len(l.tried) : l.tried[i] \notin Range(l.before)
              /\ l.failed # "" =>
                    /\ ~l.result
                    /\ \A i \in 1..Len(available_migrations) :
                          (available_migrations[i] = l.failed) => Len(recorded) < i
              /\ Range(l.before) = all =>
                    l.fault = "create" \/ (l.tried = <<>> /\ l.result)

\* C30: a call made less than sync_interval seconds after the last
\* successful sync sends nothing and answers 'skipped'; last_sync_time and
\* the cache change only in a call that answers 'success'; after a call that
\* answers 'error' the next call is due again; a call of an instance that
\* has not synced yet is sent.
C30_SyncThrottling ==
    LET l == bridge.last
    IN  bridge.calls > 0 =>
          /\ (l.last_sync_time # None /\ l.at - Get(l.last_sync_time) < sync_interval)
                => /\ l.status = "skipped" /\ ~l.sent
          /\ l.status = "skipped" <=> ~l.sent
          /\ l.status # "success"
                => /\ bridge.last_sync_time = l.last_sync_time
                   /\ bridge.clipboard_cache = l.clipboard_cache
          /\ l.status = "error"
                => \/ bridge.last_sync_time = None
                   \/ bridge.now - Get(bridge.last_sync_time) >= sync_interval
          /\ l.last_sync_time = None => l.sent

\* after two requests, one of them a successful sync with a content_hash,
\* a call has been skipped
C30_Witness ==
    /\ bridge.last.status = "skipped"
    /\ bridge.posts >= 2
    /\ bridge.clipboard_cache # {}

====
